---------------------------- MODULE Spec2Model ----------------------------
(***************************************************************************)
(* Model of ludusavi's path / backup-layout core:                          *)
(*   src/src/layout.rs   IndividualMapping, OverallMapping, BackupLayout   *)
(*   src/src/path.rs     StrictPath                                        *)
(*   src/src/prelude.rs  back_up_game, restore_game and friends            *)
(*                                                                         *)
(* Strings are modelled as sequences of atoms.  Every character the code   *)
(* inspects (separators, ':', '?', '_', '.', ...) is an atom of its own;   *)
(* a run of ordinary characters (a file or folder name) is one atom.       *)
(***************************************************************************)
EXTENDS Integers, Sequences, FiniteSets, TLC

VARIABLES
    mapping,    \* the IndividualMapping instance driven by SpecMapping: [name, drives]
    origin,     \* how that instance was built: "new" (IndividualMapping::new) or "load"
    returned,   \* history: token |-> set of designators drive_folder_name returned it for
    last,       \* the latest drive_folder_name call on `mapping`
    platform,   \* the build target: "linux", "windows" or (for the scan) "mac"
    disk,       \* the file system under the backup root
    opened,     \* the BackupLayout instance in use: [base, games]
    bk,         \* the frame of the current or the latest back_up_game call
    runs,       \* number of back_up_game calls that have returned
    faults,     \* number of I/O operations that failed for an outside reason
    rs,         \* the frame of the latest scan_game_for_restoration / restore_game call
    sc,         \* the frame of the latest scan_game_for_backup call
    ip,         \* the latest StrictPath::interpret call: its inputs and its result
    ld          \* the latest IndividualMapping::load or OverallMapping::load call

mvars == <<mapping, origin, returned, last>>

bvars == <<platform, disk, opened, bk, runs, faults>>

svars == <<sc, ip, ld>>

vars == <<mapping, origin, returned, last, platform, disk, opened, bk, runs, faults, rs, sc, ip, ld>>

-----------------------------------------------------------------------------
(* Bounds of the model *)

\* number of distinct drive designators SpecMapping may pass to drive_folder_name
MaxDrives == 1000

\* rand::random::<u16>() is drawn from 0 .. MaxRandom
MaxRandom == 1

\* number of back_up_game calls in one behaviour
MaxRuns == 2

\* number of I/O operations in one behaviour that fail although the state of
\* the disk allows them (permissions, a full disk, a vanished source file)
MaxFaults == 1

-----------------------------------------------------------------------------
(* Generic helpers *)

Values(f) == {f[k] : k \in DOMAIN f}

Min(S) == CHOOSE n \in S : \A k \in S : n <= k

-----------------------------------------------------------------------------
(* Strings: the str methods the code uses, on sequences of atoms *)

StartsWith(s, p) == Len(p) <= Len(s) /\ SubSeq(s, 1, Len(p)) = p

MatchAt(s, p, i) == i + Len(p) - 1 <= Len(s) /\ SubSeq(s, i, i + Len(p) - 1) = p

\* str::replacen(from, to, count) for a non-empty pattern: the first `count`
\* non-overlapping matches, found left to right, are replaced
RECURSIVE ReplaceFrom(_, _, _, _, _)
ReplaceFrom(s, from, to, i, count) ==
    IF i > Len(s) THEN << >>
    ELSE IF count > 0 /\ MatchAt(s, from, i)
         THEN to \o ReplaceFrom(s, from, to, i + Len(from), count - 1)
         ELSE <<s[i]>> \o ReplaceFrom(s, from, to, i + 1, count)

Replacen(s, from, to, count) == ReplaceFrom(s, from, to, 1, count)

\* str::replace(from, to): every non-overlapping match
Replace(s, from, to) == ReplaceFrom(s, from, to, 1, Len(s))

\* str::matches(p).count() for a one-atom pattern
MatchCount(s, atom) == Cardinality({i \in 1..Len(s) : s[i] = atom})

\* str::len(): the atoms' lengths added up
RECURSIVE StrLen(_)
StrLen(s) == IF s = << >> THEN 0 ELSE Len(Head(s)) + StrLen(Tail(s))

\* str::splitn(2, sep): <<s>> when sep does not occur, else the text before
\* the first sep and the text after it
Splitn2(s, sep) ==
    LET at == {i \in 1..Len(s) : s[i] = sep}
    IN  IF at = {} THEN <<s>>
        ELSE <<SubSeq(s, 1, Min(at) - 1), SubSeq(s, Min(at) + 1, Len(s))>>

\* the pieces of s between occurrences of the atom sep (empty pieces kept)
RECURSIVE SplitOn(_, _)
SplitOn(s, sep) ==
    LET parts == Splitn2(s, sep)
    IN  IF Len(parts) = 1 THEN <<s>> ELSE <<parts[1]>> \o SplitOn(parts[2], sep)

\* pieces joined with sep between them
RECURSIVE JoinWith(_, _)
JoinWith(pieces, sep) ==
    IF pieces = << >> THEN << >>
    ELSE IF Len(pieces) = 1 THEN pieces[1]
    ELSE pieces[1] \o <<sep>> \o JoinWith(Tail(pieces), sep)

-----------------------------------------------------------------------------
(* path.rs: StrictPath.  `os` is the build target ("linux" or "windows").   *)

TYPICAL_SEPARATOR(os) == IF os = "windows" THEN "\\" ELSE "/"

ATYPICAL_SEPARATOR(os) == IF os = "windows" THEN "/" ELSE "\\"

UNC_PREFIX == <<"\\", "\\">>

UNC_LOCAL_PREFIX == <<"\\", "\\", "?", "\\">>

\* dirs::home_dir() and std::env::current_dir() of the modelled machine
HomeDir(os) == IF os = "windows" THEN <<"C", ":", "\\", "Users", "\\", "u">>
                                 ELSE <<"/", "home", "/", "u">>

CurrentDir(os) == IF os = "windows" THEN <<"C", ":", "\\", "cwd">> ELSE <<"/", "cwd">>

\* a StrictPath value: raw text and the optional basis (a set of at most one)
StrictPath_new(raw) == [raw |-> raw, basis |-> {}]

StrictPath_relative(raw, basis) == [raw |-> raw, basis |-> basis]

parse_home(os, path) ==
    IF path = <<"~">> \/ StartsWith(path, <<"~", "/">>) \/ StartsWith(path, <<"~", "\\">>)
    THEN Replacen(path, <<"~">>, HomeDir(os), 1)
    ELSE path

normalize(os, path) ==
    Replace(parse_home(os, path), <<ATYPICAL_SEPARATOR(os)>>, <<TYPICAL_SEPARATOR(os)>>)

\* std::path: the length of the prefix component of a Windows path (verbatim
\* disk \\?\C:, disk C:, or \\server\share), 0 when there is none
PrefixLen(os, path) ==
    IF os # "windows" THEN 0
    ELSE IF StartsWith(path, UNC_LOCAL_PREFIX) /\ Len(path) >= 6 /\ path[6] = ":" THEN 6
    ELSE IF Len(path) >= 2 /\ path[2] = ":" /\ path[1] \notin {"\\", "/"} THEN 2
    ELSE IF StartsWith(path, UNC_PREFIX) /\ ~StartsWith(path, UNC_LOCAL_PREFIX)
         THEN LET parts == SplitOn(SubSeq(path, 3, Len(path)), "\\")
              IN  IF Len(parts) >= 2 THEN 2 + Len(parts[1]) + 1 + Len(parts[2])
                  ELSE Len(path)
    ELSE 0

IsSeparator(os, atom) == atom = "/" \/ (os = "windows" /\ atom = "\\")

\* std::path::Path::has_root after the prefix
HasRoot(os, path) ==
    LET root_at(n) == Len(path) > n /\ IsSeparator(os, path[n + 1])
    IN  root_at(PrefixLen(os, path))

\* std::path::Path::is_absolute
is_absolute(os, path) ==
    IF os = "windows" THEN PrefixLen(os, path) > 0 /\ HasRoot(os, path)
    ELSE HasRoot(os, path)

\* PathBuf::push / Path::join, rendered: an absolute `path` replaces the
\* base, otherwise it is appended after a separator
PathJoin(os, base, path) ==
    IF is_absolute(os, path) THEN path
    ELSE IF base # << >> /\ IsSeparator(os, base[Len(base)]) THEN base \o path
    ELSE base \o <<TYPICAL_SEPARATOR(os)>> \o path

\* the components of `path` after its prefix and root: the non-empty pieces
\* between separators (Path::components drops repeated separators)
NormalPieces(os, path) ==
    LET rest == SubSeq(path, PrefixLen(os, path) + 1, Len(path))
        unified == Replace(rest, <<ATYPICAL_SEPARATOR(os)>>, <<TYPICAL_SEPARATOR(os)>>)
    IN  SelectSeq(SplitOn(unified, TYPICAL_SEPARATOR(os)), LAMBDA piece : piece # << >>)

\* the loop of parse_dots over the components: "." is skipped, ".." pops the
\* last pushed component (PathBuf::pop at the root pops nothing)
RECURSIVE ResolveDots(_, _)
ResolveDots(pieces, stack) ==
    IF pieces = << >> THEN stack
    ELSE IF Head(pieces) = <<".">> THEN ResolveDots(Tail(pieces), stack)
    ELSE IF Head(pieces) = <<".", ".">>
         THEN ResolveDots(Tail(pieces),
                          IF stack = << >> THEN stack ELSE SubSeq(stack, 1, Len(stack) - 1))
    ELSE ResolveDots(Tail(pieces), Append(stack, Head(pieces)))

\* parse_dots(path, basis): the prefix (or else the basis) followed by the
\* components with the dots resolved
parse_dots(os, path, basis) ==
    LET from(start) ==
            SubSeq(start, 1, PrefixLen(os, start))
              \o (IF HasRoot(os, start) THEN <<TYPICAL_SEPARATOR(os)>> ELSE << >>)
        resolve(restart) ==
            from(IF restart THEN path ELSE basis)
              \o JoinWith(ResolveDots((IF restart THEN << >> ELSE NormalPieces(os, basis))
                                        \o NormalPieces(os, path), << >>),
                          TYPICAL_SEPARATOR(os))
    IN  resolve(PrefixLen(os, path) > 0 \/ HasRoot(os, path))

\* interpret(path, basis).  The modelled file system has no symbolic links, so
\* fs::canonicalize of an existing path yields the string of the fallback arm.
interpret(os, path, basis) ==
    LET base == IF basis = {} THEN CurrentDir(os) ELSE CHOOSE b \in basis : TRUE
        absolutize(normalized) ==
            IF is_absolute(os, normalized) THEN normalized
            ELSE PathJoin(os, base, normalized)
        marked(dedotted) ==
            (IF os = "windows" /\ ~StartsWith(dedotted, UNC_LOCAL_PREFIX)
             THEN UNC_LOCAL_PREFIX ELSE << >>)
            \o Replace(dedotted, <<ATYPICAL_SEPARATOR(os)>>, <<TYPICAL_SEPARATOR(os)>>)
    IN  marked(parse_dots(os, absolutize(normalize(os, path)), base))

\* render(path): the long-path marker stripped, separators forced to "/"
render(path) == Replace(Replace(path, UNC_LOCAL_PREFIX, << >>), <<"\\">>, <<"/">>)

StrictPath_interpret(os, sp) == interpret(os, sp.raw, sp.basis)

StrictPath_render(os, sp) == render(StrictPath_interpret(os, sp))

\* joined(other): format!("{}/{}", self.interpret(), other)
StrictPath_joined(os, sp, other) ==
    StrictPath_new(StrictPath_interpret(os, sp) \o <<"/">> \o other)

\* split_drive: <<drive designator, remainder>>
split_drive(os, sp) ==
    LET after(text, prefix) == Splitn2(SubSeq(text, Len(prefix) + 1, Len(text)), "\\")
        split(interpreted, local, remote) ==
            IF StartsWith(interpreted, UNC_LOCAL_PREFIX) /\ Len(local) = 2
            THEN <<local[1], Replace(local[2], <<"\\">>, <<"/">>)>>
            ELSE IF ~StartsWith(interpreted, UNC_LOCAL_PREFIX)
                    /\ StartsWith(interpreted, UNC_PREFIX) /\ Len(remote) = 2
            THEN <<UNC_PREFIX \o remote[1], Replace(remote[2], <<"\\">>, <<"/">>)>>
            ELSE <<<< >>, Replace(sp.raw, <<"\\">>, <<"/">>)>>
        windows(interpreted) ==
            split(interpreted, after(interpreted, UNC_LOCAL_PREFIX), after(interpreted, UNC_PREFIX))
    IN  IF os = "windows"
        THEN windows(StrictPath_interpret(os, sp))
        ELSE << << >>, IF StartsWith(sp.raw, <<"/">>) THEN Tail(sp.raw) ELSE sp.raw >>

-----------------------------------------------------------------------------
(* layout.rs: IndividualMapping *)

\* `for n in 2..1000`: the exclusive upper end of the loop range
TokenLimit == 1000

\* format!("drive-{}", n), tabulated over the values the loop can produce
KeyTable == [n \in 1..TokenLimit |-> "drive-" \o ToString(n)]

DriveKey(n) == IF n \in DOMAIN KeyTable THEN KeyTable[n] ELSE "drive-" \o ToString(n)

\* A mapping that starts with an entry of an earlier backup
IndividualMapping_stale(name) == [name |-> name, drives |-> ("drive-1" :> <<"Z", ":">>)]

\* IndividualMapping::new
IndividualMapping_new(name) == [name |-> name, drives |-> << >>]

\* reversed_drives: the tokens a designator is the value of.  The code collects
\* (value, key) pairs into a HashMap, so with several tokens for one designator
\* the survivor depends on the iteration order: any of them.
reversed_drives(drives, drive) == {k \in DOMAIN drives : drives[k] = drive}

\* The `None` arm of drive_folder_name: key starts at "drive-1"; for n in
\* 2..1000 the first key that is not contained is inserted and the loop breaks,
\* otherwise key becomes "drive-<n>".  When drive-1 .. drive-998 are all taken
\* the loop ends with key = "drive-999", which is returned without an insert.
allocate_drive_key(drives, drive) ==
    LET free == {n \in 1..(TokenLimit - 2) : DriveKey(n) \notin DOMAIN drives}
    IN  IF free = {}
        THEN [token |-> DriveKey(TokenLimit - 1), drives |-> drives]
        ELSE [token  |-> DriveKey(Min(free)),
              drives |-> (DriveKey(Min(free)) :> drive) @@ drives]

\* drive_folder_name without the lookup in reversed_drives
drive_folder_name_always_allocates(drives, drive) == {allocate_drive_key(drives, drive)}

\* drive_folder_name: the set of outcomes [token, drives] of one call
drive_folder_name(drives, drive) ==
    IF reversed_drives(drives, drive) # {}
    THEN {[token |-> k, drives |-> drives] : k \in reversed_drives(drives, drive)}
    ELSE {allocate_drive_key(drives, drive)}

-----------------------------------------------------------------------------
(* The file system under the backup root.  fs maps the interpreted path of   *)
(* every existing entry to [kind, doc]: kind is "dir" or "file"; doc is the  *)
(* parsed mapping document of a file that holds one (a set of at most one:   *)
(* empty for directories, other files and unparsable documents); text tells  *)
(* whether the content of a file is valid UTF-8.                             *)

DirEntry == [kind |-> "dir", doc |-> {}, text |-> TRUE]

FileEntry == [kind |-> "file", doc |-> {}, text |-> TRUE]

DocEntry(doc) == [kind |-> "file", doc |-> {doc}, text |-> TRUE]

\* a regular file whose bytes are not valid UTF-8
BinaryEntry == [kind |-> "file", doc |-> {}, text |-> FALSE]

\* Path::is_file / Path::is_dir / StrictPath::exists on an interpreted path
is_file(fs, path) == path \in DOMAIN fs /\ fs[path].kind = "file"

is_dir(fs, path) == path \in DOMAIN fs /\ fs[path].kind = "dir"

exists(fs, path) == is_file(fs, path) \/ is_dir(fs, path)

\* `path` lies below the directory `dir`
Below(os, dir, path) == StartsWith(path, dir \o <<TYPICAL_SEPARATOR(os)>>)

\* the last component of a path and the path without it (PathBuf::pop)
FileName(os, path) ==
    LET pieces == SplitOn(path, TYPICAL_SEPARATOR(os)) IN pieces[Len(pieces)]

ParentDir(os, path) == SubSeq(path, 1, Len(path) - Len(FileName(os, path)) - 1)

\* the ancestors of `path` that lie below `top`, and `path` itself
RECURSIVE AncestorsBelow(_, _, _)
AncestorsBelow(os, top, path) ==
    IF ~Below(os, top, path) THEN {}
    ELSE {path} \cup AncestorsBelow(os, top, ParentDir(os, path))

\* walkdir with max_depth(1): the directory itself and its immediate entries
WalkDepth1(os, fs, dir) ==
    {p \in DOMAIN fs : p = dir \/ (Below(os, dir, p) /\ ParentDir(os, p) = dir)}

\* walkdir below `top`, filtered to regular files (`top` itself if it is one)
WalkFiles(os, fs, top) ==
    {p \in DOMAIN fs : (p = top \/ Below(os, top, p)) /\ fs[p].kind = "file"}

\* StrictPath::remove when it succeeds: remove_file or remove_dir_all
fs_remove(os, fs, path) ==
    [p \in {q \in DOMAIN fs : q # path /\ ~Below(os, path, q)} |-> fs[p]]

\* std::fs::create_dir can succeed: the path is free and its parent is a directory
can_create_dir(os, fs, path) == ~exists(fs, path) /\ is_dir(fs, ParentDir(os, path))

fs_create_dir(fs, path) == (path :> DirEntry) @@ fs

\* std::fs::create_dir_all(dir) below the existing directory `top` can
\* succeed: no ancestor is a regular file
can_create_dir_all(os, fs, top, dir) ==
    \A p \in AncestorsBelow(os, top, dir) : ~is_file(fs, p)

fs_create_dir_all(os, fs, top, dir) ==
    [p \in AncestorsBelow(os, top, dir) \ DOMAIN fs |-> DirEntry] @@ fs

\* std::fs::copy / std::fs::write to `path` can succeed: it is no directory
\* and its parent is one
can_write_file(os, fs, path) == ~is_dir(fs, path) /\ is_dir(fs, ParentDir(os, path))

fs_write_file(fs, path, entry) == (path :> entry) @@ fs

-----------------------------------------------------------------------------
(* layout.rs: OverallMapping and BackupLayout *)

SAFE == "_"

MAPPING_YAML == <<"mapping.yaml">>

REGISTRY_YAML == <<"registry.yaml">>

\* the characters escape_folder_name replaces ("<NUL>" stands for '\0')
UnsafeAtoms == {"\\", "/", ":", "*", "?", "\"", "<", ">", "|", "<NUL>"}

\* IndividualMapping::load (with load_from_string): Err(()) when the path is
\* no regular file; then read_to_string(..).unwrap(), which panics when the
\* content is not valid UTF-8; then Ok(document) or Err(()) from the parser
IndividualMapping_load(os, fs, file) ==
    LET read(path) ==
            IF ~is_file(fs, path) THEN [tag |-> "Err", value |-> {}]
            ELSE IF ~fs[path].text THEN [tag |-> "panic", value |-> {}]
            ELSE IF fs[path].doc = {} THEN [tag |-> "Err", value |-> {}]
            ELSE [tag |-> "Ok", value |-> fs[path].doc]
    IN  read(StrictPath_interpret(os, file))

\* OverallMapping::load, lines 81-95: what IndividualMapping::load gives for
\* the mapping.yaml of each sub-directory of base that has one
IndividualLoads(os, fs, base) ==
    LET individual_file(d) == d \o <<TYPICAL_SEPARATOR(os)>> \o MAPPING_YAML
        walk(root) ==
            { [dir |-> d, loaded |-> IndividualMapping_load(os, fs, StrictPath_new(individual_file(d)))] :
                d \in {e \in WalkDepth1(os, fs, root) :
                         e # root /\ is_dir(fs, e) /\ is_file(fs, individual_file(e))} }
    IN  walk(StrictPath_interpret(os, base))

\* OverallMapping::load does not return: a call of IndividualMapping::load panics
OverallMapping_load_panics(os, fs, base) ==
    \E l \in IndividualLoads(os, fs, base) : l.loaded.tag = "panic"

\* OverallMapping::load: the sub-directories of base that hold a readable
\* mapping document, as [name, base, drives]
LoadedGames(os, fs, base) ==
    UNION { {[name |-> doc.name, base |-> StrictPath_new(l.dir), drives |-> doc.drives] :
               doc \in l.loaded.value} :
            l \in {k \in IndividualLoads(os, fs, base) : k.loaded.tag = "Ok"} }

\* OverallMapping::load: games.insert keeps, per name, the folder walked
\* last; the order of the walk is the directory order, so any of them
OverallMapping_load(os, fs, base) ==
    LET insert(loaded) ==
            { [n \in {g.name : g \in loaded} |-> [base |-> pick[n].base, drives |-> pick[n].drives]] :
              pick \in {f \in [{g.name : g \in loaded} -> loaded] :
                          \A n \in DOMAIN f : f[n].name = n} }
    IN  insert(LoadedGames(os, fs, base))

\* BackupLayout::new: the possible instances
BackupLayout_new(os, fs, base) ==
    IF OverallMapping_load_panics(os, fs, base) THEN {}
    ELSE {[base |-> base, games |-> games] : games \in OverallMapping_load(os, fs, base)}

\* escape_folder_name that drops the unsafe characters
escape_folder_name_dropping(name) ==
    IF name = <<".">> \/ name = <<".", ".">>
    THEN Replace(name, <<".">>, <<SAFE>>)
    ELSE SelectSeq(name, LAMBDA atom : atom \notin UnsafeAtoms)

escape_folder_name(name) ==
    IF name = <<".">> \/ name = <<".", ".">>
    THEN Replace(name, <<".">>, <<SAFE>>)
    ELSE [i \in 1..Len(name) |-> IF name[i] \in UnsafeAtoms THEN SAFE ELSE name[i]]

\* rand::random::<u16>() ranges over 0 .. 65535; the model draws from 0 .. MaxRandom
generate_total_rename == {<<"ludusavi-renamed-", ToString(r)>> : r \in 0..MaxRandom}

\* The total rename of game_folder: a generated name that does not exist yet,
\* or, after more than 1000 draws that all exist, the fixed last resort
total_rename(os, fs, base) ==
    LET taken(n) == exists(fs, StrictPath_interpret(os, StrictPath_joined(os, base, n)))
        outcomes(free) ==
            free \cup (IF free # generate_total_rename
                       THEN {<<"ludusavi-renamed-", "collision">>} ELSE {})
    IN  outcomes({n \in generate_total_rename : ~taken(n)})

\* game_folder without the lookup in the loaded mapping
game_folder_recomputed(os, fs, layout, game_name) ==
    LET safe_name == escape_folder_name(game_name)
    IN  IF MatchCount(safe_name, SAFE) = StrLen(safe_name)
        THEN {StrictPath_joined(os, layout.base, n) : n \in total_rename(os, fs, layout.base)}
        ELSE {StrictPath_joined(os, layout.base, safe_name)}

\* game_folder without the total rename
game_folder_escaped(os, fs, layout, game_name) ==
    IF game_name \in DOMAIN layout.games
    THEN {layout.games[game_name].base}
    ELSE {StrictPath_joined(os, layout.base, escape_folder_name(game_name))}

\* BackupLayout::game_folder: the folders one call can return
game_folder(os, fs, layout, game_name) ==
    IF game_name \in DOMAIN layout.games
    THEN {layout.games[game_name].base}
    ELSE LET safe_name == escape_folder_name(game_name)
         IN  IF MatchCount(safe_name, SAFE) = StrLen(safe_name)
             THEN {StrictPath_joined(os, layout.base, n) : n \in total_rename(os, fs, layout.base)}
             ELSE {StrictPath_joined(os, layout.base, safe_name)}

\* BackupLayout::game_file: the outcomes [file, drives] (the target and the
\* mapping's drives after drive_folder_name)
game_file(os, target_game, original_file, drives) ==
    LET file(split) ==
            { [file   |-> StrictPath_relative(<<r.token>> \o <<"/">> \o split[2],
                                              {StrictPath_interpret(os, target_game)}),
               drives |-> r.drives] :
              r \in drive_folder_name(drives, split[1]) }
    IN  file(split_drive(os, original_file))

game_mapping_file(os, target_game) == StrictPath_joined(os, target_game, MAPPING_YAML)

game_registry_file(os, target_game) == StrictPath_joined(os, target_game, REGISTRY_YAML)

\* BackupLayout::restorable_files: the ScannedFile set
restorable_files(os, fs, layout, game_name, target_game) ==
    LET root == StrictPath_interpret(os, target_game)
        known(drive_dir) ==
            /\ game_name \in DOMAIN layout.games
            /\ FileName(os, drive_dir) \in
                  {<<k>> : k \in DOMAIN layout.games[game_name].drives}
        drive_mapping(drive_dir) ==
            layout.games[game_name].drives[FileName(os, drive_dir)[1]]
    IN  UNION { { [path          |-> StrictPath_new(raw_file),
                   size          |-> 1,
                   original_path |-> {StrictPath_new(
                                        Replace(raw_file, drive_dir, drive_mapping(drive_dir)))}] :
                  raw_file \in WalkFiles(os, fs, drive_dir) } :
                drive_dir \in {d \in WalkDepth1(os, fs, root) : known(d)} }

-----------------------------------------------------------------------------
(* SpecMapping: one IndividualMapping instance and the calls made on it *)

\* Drive designators as split_drive produces them: "" on POSIX, a drive
\* letter with its colon, or a remote UNC server (path.rs:178-215).
DriveTable ==
    [i \in 1..(MaxDrives + 1) |->
        CASE i = 1 -> << >>
          [] i = 2 -> <<"C", ":">>
          [] i = 3 -> <<"D", ":">>
          [] OTHER -> <<"\\", "\\", "srv" \o ToString(i)>>]

Drive(i) == DriveTable[i]

\* The drives of an instance when the calls start: empty after
\* IndividualMapping::new, anything a mapping document holds after
\* IndividualMapping::load (tokens with gaps, keys that are no tokens).
InitialDrives ==
    { << >>,
      (DriveKey(2) :> Drive(2)),
      (DriveKey(1) :> Drive(1)) @@ (DriveKey(3) :> Drive(2)) @@ ("other" :> Drive(3)) }

NoCall == [called |-> FALSE, drive |-> << >>, token |-> "", repeat |-> FALSE,
           same |-> FALSE, changed |-> FALSE]

\* the frame of restore_game when no scan has been made yet
IdleRestore ==
    [pc |-> "idle", name |-> << >>, target_game |-> StrictPath_new(<< >>),
     info |-> [game_name |-> << >>, found_files |-> {}, found_registry_keys |-> {},
               registry_file |-> {}],
     redirects |-> << >>, targets |-> << >>, todo_files |-> {}, file |-> {}, target |-> {},
     i |-> 0,
     failed_files |-> {},
     \* history of the call, kept for the properties below
     results |-> {}, restored |-> {}, no_parent |-> {}, exhausted |-> {}]

\* the frame of scan_game_for_backup when no scan has been made yet
IdleScan ==
    [pc |-> "idle", game |-> [files |-> {}, install_dir |-> {}, registry |-> {}],
     name |-> << >>, roots_to_check |-> << >>, steam_id |-> {}, dirs |-> "known", i |-> 0,
     paths_to_check |-> {}, found_files |-> {}, found_registry_keys |-> {},
     \* history of the call, kept for the properties below
     candidates |-> {}, kept |-> {}, globbed |-> {}]

\* no load call has been made yet
NoLoad == [call |-> "none", file |-> StrictPath_new(<< >>), result |-> [tag |-> "none", value |-> {}]]

\* no interpret call has been made yet
NoInterpret == [called |-> FALSE, raw |-> << >>, basis |-> {}, existing |-> {}, result |-> << >>]

\* Outside SpecRestore no restoration takes place; outside SpecScan and
\* SpecPath no scan and no interpret call either
RestoreUnused == rs = IdleRestore /\ sc = IdleScan /\ ip = NoInterpret /\ ld = NoLoad

\* In SpecMapping the backup variables are not used
BackupUnused ==
    /\ platform = "linux"
    /\ disk = << >>
    /\ opened = [base |-> StrictPath_new(<< >>), games |-> << >>]
    /\ bk = << >>
    /\ runs = 0
    /\ faults = 0

InitMapping ==
    /\ BackupUnused
    /\ RestoreUnused
    /\ \E d \in InitialDrives :
          /\ mapping = [name |-> <<"g">>, drives |-> d]
          /\ origin = IF d = << >> THEN "new" ELSE "load"
    /\ returned = << >>
    /\ last = NoCall

\* designators already passed to drive_folder_name on this instance
PassedDrives == UNION Values(returned)

\* Designators are only ever compared for equality (layout.rs:26), so a
\* designator that was never passed is taken in the order of DriveTable.
NextDrives ==
    LET passed == PassedDrives
        unseen == {i \in 1..MaxDrives : Drive(i) \notin passed}
    IN  IF unseen = {} THEN {} ELSE {Drive(Min(unseen))}

\* The arguments of the next call: the next designator never passed before,
\* or the designator of the latest call once more.
CallDrives == NextDrives \cup (IF last.called THEN {last.drive} ELSE {})

\* mapping.drive_folder_name(drive)
DriveFolderNameCall(drive) ==
    \E r \in drive_folder_name(mapping.drives, drive) :
        /\ mapping' = [mapping EXCEPT !.drives = r.drives]
        /\ returned' = IF r.token \in DOMAIN returned
                       THEN [returned EXCEPT ![r.token] = @ \cup {drive}]
                       ELSE (r.token :> {drive}) @@ returned
        /\ last' = [called  |-> TRUE,
                    drive   |-> drive,
                    token   |-> r.token,
                    repeat  |-> last.called /\ last.drive = drive,
                    same    |-> last.called /\ last.token = r.token,
                    changed |-> r.drives # mapping.drives]
        /\ UNCHANGED <<origin, bvars, rs, svars>>

NextMapping == \E drive \in CallDrives : DriveFolderNameCall(drive)

SpecMapping == InitMapping /\ [][NextMapping]_vars

-----------------------------------------------------------------------------
(* Claims about IndividualMapping::drive_folder_name, under SpecMapping *)

\* C7: on a mapping that starts empty, after any sequence of drive_folder_name
\* calls no token was returned for two distinct designators, and the drives
\* map holds at most one token per designator.
C7_TokensPairwiseDistinct ==
    origin = "new" =>
        /\ \A t \in DOMAIN returned : Cardinality(returned[t]) <= 1
        /\ Cardinality(Values(mapping.drives)) = Cardinality(DOMAIN mapping.drives)

\* C8: a call with the designator of the call just before it returns the same
\* token as that call and leaves the drives map as it was.
C8_Idempotent == last.repeat => (last.same /\ ~last.changed)

\* C8 witness: the same designator was passed twice in a row, once when the
\* call allocated its token and once when the loop had run out of tokens.
C8_Witness ==
    /\ last.repeat
    /\ last.token = DriveKey(TokenLimit - 1)
    /\ last.token \notin DOMAIN mapping.drives
    /\ DriveKey(1) \in DOMAIN mapping.drives

\* the smallest n >= 1 such that drive-<n> is not a key
SmallestFreeNumber(drives) ==
    Min({n \in 1..(Cardinality(DOMAIN drives) + 1) : DriveKey(n) \notin DOMAIN drives})

\* C9: a call whose designator is not yet a value of the drives map returns
\* drive-<n> for the smallest n >= 1 that is not a key, and afterwards that
\* token is a key of the map and maps to the designator.
C9_LowestUnusedToken ==
    [][ (last'.called /\ last'.drive \notin Values(mapping.drives)) =>
            LET token == DriveKey(SmallestFreeNumber(mapping.drives))
            IN  /\ last'.token = token
                /\ token \in DOMAIN mapping'.drives
                /\ mapping'.drives[token] = last'.drive ]_vars

-----------------------------------------------------------------------------
(* prelude.rs: back_up_game, one action per step of the function *)

\* ScanInfo::found_anything
\* found_anything that does not look at the scan
found_anything_regardless(info) == TRUE

found_anything(info) == info.found_files # {} \/ info.found_registry_keys # {}

ScannedFile(raw) == [path |-> StrictPath_new(raw), size |-> 1, original_path |-> {}]

\* The configured backup root
BackupRoot(os) ==
    StrictPath_new(IF os = "windows" THEN <<"C", ":", "/", "r">> ELSE <<"/", "r">>)

\* Game names: an ordinary one, two that differ in an unsafe character only,
\* and one made of unsafe characters alone
GameNames == { <<"g">>, <<"a", ":">>, <<"a", "?">>, <<"?">> }

\* The found_files of the scans that are backed up (scan_game_for_backup
\* stores absolute paths with "/" separators, prelude.rs:390 and 406)
FoundFileSets(os) ==
    IF os = "windows"
    THEN { {},
           {<<"C", ":", "/", "s", "/", "a">>, <<"D", ":", "/", "s", "/", "a">>} }
    ELSE { {},
           {<<"/", "s", "/", "a">>, <<"/", "s", "/", "b">>},
           {<<"/", "x", "/", "r", "/", "a", "_", "/", "drive-1", "/", "y">>} }

\* Registry keys are found on Windows only (prelude.rs:419-434)
FoundKeySets(os) == IF os = "windows" THEN { {}, {"HKEY_CURRENT_USER/Software/g"} } ELSE { {} }

ScanInfos(os, name) ==
    { [game_name           |-> name,
       found_files         |-> {ScannedFile(raw) : raw \in files},
       found_registry_keys |-> keys,
       registry_file       |-> {}] :
      <<files, keys>> \in { <<files, keys>> \in FoundFileSets(os) \X FoundKeySets(os) :
                               keys = {} \/ files = {} } }

\* the frame of back_up_game when no call has been made yet
IdleFrame ==
    [pc |-> "idle", name |-> << >>, info |-> [game_name |-> << >>, found_files |-> {},
                                             found_registry_keys |-> {}, registry_file |-> {}],
     target_game |-> StrictPath_new(<< >>), mapping |-> IndividualMapping_new(<< >>),
     unable_to_prepare |-> FALSE, todo_files |-> {}, todo_keys |-> {},
     failed_files |-> {}, failed_registry |-> {},
     \* history of the call, kept for the properties below
     prepared |-> FALSE, created |-> {}, copied |-> {}, io_failed |-> {},
     allocated |-> {}, saved |-> FALSE, all_ok |-> TRUE]

\* The backup root before the first call: it holds the backup of game "g" in
\* a folder that was renamed by hand (as tests/backup/game3-renamed)
InitialDisks(os) ==
    LET sep   == <<TYPICAL_SEPARATOR(os)>>
        drive == IF os = "windows" THEN <<"C", ":">> ELSE << >>
        backup(old) ==
            (old :> DirEntry)
            @@ (old \o sep \o MAPPING_YAML :>
                  DocEntry([name |-> <<"g">>, drives |-> (DriveKey(1) :> drive)]))
            @@ (old \o sep \o <<DriveKey(1)>> :> DirEntry)
            @@ (old \o sep \o <<DriveKey(1)>> \o sep \o <<"s">> :> DirEntry)
            @@ (old \o sep \o <<DriveKey(1)>> \o sep \o <<"s">> \o sep \o <<"a">> :> FileEntry)
        content(root) == (root :> DirEntry) @@ backup(root \o sep \o <<"g-renamed">>)
    IN  { content(StrictPath_interpret(os, BackupRoot(os))) }

InitBackup ==
    /\ platform \in {"linux", "windows"}
    /\ disk \in InitialDisks(platform)
    /\ opened \in BackupLayout_new(platform, disk, BackupRoot(platform))
    /\ bk = IdleFrame
    /\ runs = 0
    /\ faults = 0

\* back_up_game(info, name, layout), lines 491-501: the target folder and the
\* fresh mapping
BackUpStart(name, info) ==
    /\ bk.pc \in {"idle", "done"}
    /\ runs < MaxRuns
    /\ \E target_game \in game_folder(platform, disk, opened, name) :
          bk' = [IdleFrame EXCEPT
                   !.pc = IF found_anything(info) THEN "prepare" ELSE "files",
                   !.name = name,
                   !.info = info,
                   !.target_game = target_game,
                   !.mapping = IndividualMapping_new(name),
                   !.todo_files = info.found_files,
                   !.todo_keys = info.found_registry_keys,
                   !.all_ok = bk.all_ok]
    /\ UNCHANGED <<platform, disk, opened, runs, faults, mvars, rs, svars>>

\* An I/O operation fails for an outside reason
Fault == faults < MaxFaults /\ faults' = faults + 1

NoFault == faults' = faults

\* Prepare with std::fs::create_dir_all in place of remove + create_dir: what
\* is in the folder stays
Prepare_without_remove ==
    /\ bk.pc = "prepare"
    /\ \E folder \in {StrictPath_interpret(platform, bk.target_game)} :
          \/ /\ is_dir(disk, folder) \/ can_create_dir(platform, disk, folder)
             /\ NoFault
             /\ disk' = (IF is_dir(disk, folder) THEN disk ELSE fs_create_dir(disk, folder))
             /\ bk' = [bk EXCEPT !.pc = "files", !.prepared = TRUE]
          \/ /\ Fault
             /\ disk' = disk
             /\ bk' = [bk EXCEPT !.pc = "files", !.unable_to_prepare = TRUE, !.all_ok = FALSE]
    /\ UNCHANGED <<platform, opened, runs, mvars, rs, svars>>

\* the frame after a failed preparation (lines 504 and 508)
unprepared(frame) ==
    [frame EXCEPT !.pc = "files", !.unable_to_prepare = TRUE, !.all_ok = FALSE]

\* lines 502-513: target_game.remove(), then std::fs::create_dir
Prepare ==
    /\ bk.pc = "prepare"
    /\ \E folder \in {StrictPath_interpret(platform, bk.target_game)} :
       \E removed \in {fs_remove(platform, disk, folder)} :
       \E can_create \in {can_create_dir(platform, removed, folder)} :
          \/ /\ can_create                           \* both return Ok
             /\ NoFault
             /\ disk' = fs_create_dir(removed, folder)
             /\ bk' = [bk EXCEPT !.pc = "files", !.prepared = TRUE]
          \/ /\ IF can_create THEN Fault ELSE NoFault \* create_dir fails
             /\ disk' = removed
             /\ bk' = unprepared(bk)
          \/ /\ exists(disk, folder)                  \* remove fails
             /\ Fault
             /\ disk' = disk
             /\ bk' = unprepared(bk)
    /\ UNCHANGED <<platform, opened, runs, mvars, rs, svars>>

\* A file of an unprepared backup that is skipped without being reported
failed_unprepared_unrecorded(frame, file) == [frame EXCEPT !.all_ok = FALSE]

\* line 516-519: a file of a backup that could not be prepared
failed_unprepared(frame, file) ==
    [frame EXCEPT !.failed_files = @ \cup {file}, !.all_ok = FALSE]

\* A copy error that is not reported
failed_io_unrecorded(frame, file) ==
    [frame EXCEPT !.io_failed = @ \cup {file}, !.all_ok = FALSE]

\* lines 522-529: create_parent_dir or std::fs::copy returned an error
failed_io(frame, file) ==
    [frame EXCEPT !.failed_files = @ \cup {file}, !.io_failed = @ \cup {file},
                  !.all_ok = FALSE]

\* lines 515-530: one iteration of the loop over info.found_files (a HashSet:
\* any order)
CopyFile(file) ==
    /\ bk.pc = "files"
    /\ file \in bk.todo_files
    /\ \E rest \in {[bk EXCEPT !.todo_files = @ \ {file}]} :
          IF bk.unable_to_prepare
          THEN /\ bk' = failed_unprepared(rest, file)
               /\ disk' = disk
               /\ NoFault
          ELSE \E gf \in game_file(platform, bk.target_game, file.path, bk.mapping.drives) :
               \E target \in {StrictPath_interpret(platform, gf.file)} :
               \E folder \in {StrictPath_interpret(platform, bk.target_game)} :
               \E parent \in {ParentDir(platform, target)} :
               \E mapped \in {[rest EXCEPT !.mapping.drives = gf.drives,
                                           !.allocated = @ \cup (DOMAIN gf.drives \ DOMAIN bk.mapping.drives)]} :
               \E made \in {fs_create_dir_all(platform, disk, folder, parent)} :
               \E dirs \in {[mapped EXCEPT !.created = @ \cup (DOMAIN made \ DOMAIN disk)]} :
               \E can_make \in {can_create_dir_all(platform, disk, folder, parent)} :
               \E can_copy \in {can_make /\ can_write_file(platform, made, target)} :
                  \/ /\ IF can_make THEN Fault ELSE NoFault   \* create_parent_dir fails
                     /\ disk' = disk
                     /\ bk' = failed_io(mapped, file)
                  \/ /\ can_make                             \* std::fs::copy fails
                     /\ IF can_copy THEN Fault ELSE NoFault
                     /\ disk' = made
                     /\ bk' = failed_io(dirs, file)
                  \/ /\ can_copy                             \* both return Ok
                     /\ NoFault
                     /\ disk' = fs_write_file(made, target, FileEntry)
                     /\ bk' = [dirs EXCEPT !.created = @ \cup {target},
                                           !.copied = @ \cup {<<file, target>>}]
    /\ UNCHANGED <<platform, opened, runs, mvars, rs, svars>>

\* lines 532-553 (Windows builds): one iteration of the loop over
\* info.found_registry_keys; a stored key is saved to the registry file
StoreRegistryKey(key) ==
    /\ bk.pc = "files"
    /\ bk.todo_files = {}
    /\ platform = "windows"
    /\ key \in bk.todo_keys
    /\ \E rest \in {[bk EXCEPT !.todo_keys = @ \ {key}]} :
       \E file \in {StrictPath_interpret(platform, game_registry_file(platform, bk.target_game))} :
          \/ /\ IF bk.unable_to_prepare THEN NoFault ELSE Fault
             /\ bk' = [rest EXCEPT !.failed_registry = @ \cup {key}, !.all_ok = FALSE]
             /\ disk' = disk
          \/ /\ ~bk.unable_to_prepare
             /\ can_write_file(platform, disk, file)
             /\ NoFault
             /\ bk' = [rest EXCEPT !.created = @ \cup {file}]
             /\ disk' = fs_write_file(disk, file, FileEntry)
    /\ UNCHANGED <<platform, opened, runs, mvars, rs, svars>>

\* lines 555-563: mapping.save, then the BackupInfo is returned
SaveMapping ==
    /\ bk.pc = "files"
    /\ bk.todo_files = {}
    /\ platform = "windows" => bk.todo_keys = {}
    /\ \E file \in {StrictPath_interpret(platform, game_mapping_file(platform, bk.target_game))} :
          IF found_anything(bk.info) /\ ~bk.unable_to_prepare
          THEN /\ disk' = fs_write_file(disk, file, DocEntry(bk.mapping))
               /\ bk' = [bk EXCEPT !.pc = "done", !.saved = TRUE, !.created = @ \cup {file}]
          ELSE /\ disk' = disk
               /\ bk' = [bk EXCEPT !.pc = "done"]
    /\ runs' = runs + 1
    /\ UNCHANGED <<platform, opened, faults, mvars, rs, svars>>

\* BackupLayout::new(base) between two calls: the layout is opened again
OpenLayout ==
    /\ bk.pc \in {"idle", "done"}
    /\ opened' \in BackupLayout_new(platform, disk, opened.base)
    /\ UNCHANGED <<platform, disk, bk, runs, faults, mvars, rs, svars>>

Next ==
    \/ \E name \in GameNames : \E info \in ScanInfos(platform, name) : BackUpStart(name, info)
    \/ Prepare
    \/ \E file \in bk.todo_files : CopyFile(file)
    \/ \E key \in bk.todo_keys : StoreRegistryKey(key)
    \/ SaveMapping
    \/ OpenLayout

\* In Spec the IndividualMapping instance of SpecMapping is not used
MappingUnused ==
    /\ mapping = IndividualMapping_new(<< >>)
    /\ origin = "new"
    /\ returned = << >>
    /\ last = NoCall

Init == InitBackup /\ MappingUnused /\ RestoreUnused

Spec == Init /\ [][Next]_vars

-----------------------------------------------------------------------------
(* prelude.rs: scan_game_for_restoration and restore_game *)

\* A RedirectConfig
RedirectConfig(source, target) ==
    [source |-> StrictPath_new(source), target |-> StrictPath_new(target)]

\* The loop of game_file_restoration_target with every occurrence of the
\* source replaced
RECURSIVE apply_redirects_everywhere(_, _, _)
apply_redirects_everywhere(os, redirected_target, redirects) ==
    IF redirects = << >> THEN redirected_target
    ELSE LET step(source, target) ==
                 IF source # << >> /\ target # << >> /\ StartsWith(redirected_target, source)
                 THEN Replace(redirected_target, source, target)
                 ELSE redirected_target
         IN  apply_redirects_everywhere(os,
                 step(StrictPath_render(os, Head(redirects).source),
                      StrictPath_render(os, Head(redirects).target)),
                 Tail(redirects))

\* The loop of game_file_restoration_target with every redirect tested
\* against the original target; the last one that matches wins
RECURSIVE apply_redirects_to_original(_, _, _)
apply_redirects_to_original(os, redirected_target, redirects) ==
    IF redirects = << >> THEN redirected_target
    ELSE LET step(rest, source, target) ==
                 IF rest # redirected_target THEN rest
                 ELSE IF source # << >> /\ target # << >> /\ StartsWith(redirected_target, source)
                 THEN Replacen(redirected_target, source, target, 1)
                 ELSE redirected_target
         IN  step(apply_redirects_to_original(os, redirected_target, Tail(redirects)),
                  StrictPath_render(os, Head(redirects).source),
                  StrictPath_render(os, Head(redirects).target))

\* lines 160-167: the loop over the redirects, from the rendering
\* `redirected_target`
RECURSIVE apply_redirects(_, _, _)
apply_redirects(os, redirected_target, redirects) ==
    IF redirects = << >> THEN redirected_target
    ELSE LET step(source, target) ==
                 IF source # << >> /\ target # << >> /\ StartsWith(redirected_target, source)
                 THEN Replacen(redirected_target, source, target, 1)
                 ELSE redirected_target
         IN  apply_redirects(os,
                 step(StrictPath_render(os, Head(redirects).source),
                      StrictPath_render(os, Head(redirects).target)),
                 Tail(redirects))

\* game_file_restoration_target: <<effective target, original target if different>>
\* (the Option is a set with at most one element)
game_file_restoration_target(os, original_target, redirects) ==
    LET result(rendered, redirected_target) ==
            IF rendered # StrictPath_render(os, redirected_target)
            THEN <<redirected_target, {original_target}>>
            ELSE <<original_target, {}>>
        from(rendered) ==
            result(rendered, StrictPath_new(apply_redirects(os, rendered, redirects)))
    IN  from(StrictPath_render(os, original_target))

\* The names of the games that are scanned for restoration: two that have a
\* backup, one of them named like a drive token; an ordinary name and a name
\* with an unsafe character that have none; and names that are unreadable
\* (empty, ".", "..", unsafe characters only)
RestoreNames ==
    { <<"g">>, <<"drive-1">>, <<"n">>, <<"a", ":">>, <<".", ".", "/", "b", "*">>,
      << >>, <<".">>, <<".", ".">>, <<"?">>, <<"?", "*">> }

\* The backup root that is restored from, as earlier backups left it: game
\* "g" in a folder that was renamed by hand, with a folder "notes" added to
\* it; game "drive-1" in the folder of its name; and game "?" in a folder
\* with a generated name
RestoreDisks(os) ==
    LET sep   == <<TYPICAL_SEPARATOR(os)>>
        drive == IF os = "windows" THEN <<"C", ":">> ELSE << >>
        dirs(paths) == [p \in paths |-> DirEntry]
        files(paths) == [p \in paths |-> FileEntry]
        doc(folder, name) ==
            (folder \o sep \o MAPPING_YAML :>
                DocEntry([name |-> name, drives |-> (DriveKey(1) :> drive)]))
        g(folder) ==
            doc(folder, <<"g">>)
            @@ dirs({folder, folder \o sep \o <<DriveKey(1)>>,
                     folder \o sep \o <<DriveKey(1)>> \o sep \o <<"old">>,
                     folder \o sep \o <<DriveKey(1)>> \o sep \o <<"old">> \o sep \o <<"old">>,
                     folder \o sep \o <<"notes">>})
            @@ files({folder \o sep \o <<DriveKey(1)>> \o sep \o <<"old">> \o sep \o <<"save.dat">>,
                      folder \o sep \o <<DriveKey(1)>> \o sep \o <<"old">> \o sep \o <<"old">>
                             \o sep \o <<"x">>,
                      folder \o sep \o <<"notes">> \o sep \o <<"z">>})
        d(folder) ==
            doc(folder, <<"drive-1">>)
            @@ dirs({folder, folder \o sep \o <<DriveKey(1)>>,
                     folder \o sep \o <<DriveKey(1)>> \o sep \o <<"old", "er">>})
            @@ files({folder \o sep \o <<DriveKey(1)>> \o sep \o <<"old", "er">> \o sep \o <<"y">>})
        q(folder) ==
            doc(folder, <<"?">>)
            @@ dirs({folder, folder \o sep \o <<DriveKey(1)>>})
            @@ files({folder \o sep \o <<DriveKey(1)>> \o sep \o <<"y">>})
        content(root) ==
            dirs({root})
            @@ g(root \o sep \o <<"g-renamed">>)
            @@ d(root \o sep \o <<"drive-1">>)
            @@ q(root \o sep \o <<"ludusavi-renamed-", "7">>)
    IN  { content(StrictPath_interpret(os, BackupRoot(os))) }

\* The redirect lists of the configuration
RedirectLists(os) ==
    LET at(name) == (IF os = "windows" THEN <<"C", ":">> ELSE << >>) \o <<"/">> \o name
        to(a, b) == RedirectConfig(at(a), at(b))
    IN  { << >>,
          <<to(<<"old">>, <<"new">>)>>,
          <<to(<<"old">>, <<"old">>)>>,
          <<to(<<"old">>, <<"new">>), to(<<"new">>, <<"fin">>)>>,
          <<to(<<"new">>, <<"fin">>), to(<<"old">>, <<"new">>)>>,
          <<to(<<"old">>, <<"old", "/", "old">>), to(<<"else">>, <<"fin">>)>> }

InitRestore ==
    /\ platform \in {"linux", "windows"}
    /\ disk \in RestoreDisks(platform)
    /\ opened \in BackupLayout_new(platform, disk, BackupRoot(platform))
    /\ bk = IdleFrame
    /\ runs = 0
    /\ faults = 0
    /\ MappingUnused
    /\ rs = IdleRestore
    /\ sc = IdleScan
    /\ ip = NoInterpret
    /\ ld = NoLoad

\* scan_game_for_restoration(name, layout), lines 444-474.  The registry
\* file of a backup holds the keys that were stored (Windows builds).
ScanForRestoration(name) ==
    /\ rs.pc \in {"idle", "scanned", "done"}
    /\ \E target_game \in game_folder(platform, disk, opened, name) :
       \E registry \in {game_registry_file(platform, target_game)} :
       \E has_registry \in {platform = "windows"
                              /\ is_file(disk, StrictPath_interpret(platform, registry))} :
          rs' = [IdleRestore EXCEPT
                   !.pc = "scanned",
                   !.name = name,
                   !.target_game = target_game,
                   !.info = [game_name |-> name,
                             found_files |->
                                 IF is_dir(disk, StrictPath_interpret(platform, target_game))
                                 THEN restorable_files(platform, disk, opened, name, target_game)
                                 ELSE {},
                             found_registry_keys |->
                                 IF has_registry THEN {"HKEY_CURRENT_USER/Software/g"} ELSE {},
                             registry_file |-> IF has_registry THEN {registry} ELSE {}]]
    /\ UNCHANGED <<bvars, mvars, svars>>

\* line 574, tabulated: the result of game_file_restoration_target for each
\* found file that has an original path (it depends on the file and on the
\* redirects only)
restoration_targets(os, info, redirects) ==
    [file \in {f \in info.found_files : f.original_path # {}} |->
        game_file_restoration_target(os, CHOOSE x \in file.original_path : TRUE, redirects)]

\* restore_game(info, redirects), lines 565-567
RestoreStart(redirects) ==
    /\ rs.pc = "scanned"
    /\ rs' = [rs EXCEPT !.pc = "files", !.redirects = redirects,
                        !.targets = restoration_targets(platform, rs.info, redirects),
                        !.todo_files = rs.info.found_files]
    /\ UNCHANGED <<bvars, mvars, svars>>

\* lines 569-579: the next file of the loop over info.found_files (a HashSet:
\* any order), up to create_parent_dir.  The targets of a restoration lie
\* outside the backup root, the part of the file system `disk` holds: whether
\* a system call on them succeeds is the environment's choice.
RestoreFile(file) ==
    /\ rs.pc = "files"
    /\ file \in rs.todo_files
    /\ \E rest \in {[rs EXCEPT !.todo_files = @ \ {file}]} :
          IF file.original_path = {}
          THEN rs' = rest
          ELSE \E res \in {rs.targets[file]} :
               \E seen \in {[rest EXCEPT !.results = @ \cup {[file |-> file, target |-> res[1],
                                                                original |-> res[2]]}]} :
                  \/ rs' = [seen EXCEPT !.failed_files = @ \cup {file},   \* create_parent_dir fails
                                        !.no_parent = @ \cup {file}]
                  \/ rs' = [seen EXCEPT !.pc = "copy", !.file = {file},
                                        !.target = {res[1]}, !.i = 0]
    /\ UNCHANGED <<bvars, mvars, svars>>

\* `for i in 0..99` with one iteration more
may_retry_once_more(i) == i <= 99

\* `for i in 0..99`, line 580: the loop goes on
may_retry(i) == i < 99

\* lines 580-588: one iteration of the retry loop, or its end
RestoreCopy ==
    /\ rs.pc = "copy"
    /\ \E next \in {[rs EXCEPT !.pc = "files", !.file = {}, !.target = {}, !.i = 0]} :
          IF may_retry(rs.i)
          THEN \/ rs' = [next EXCEPT !.restored = @ \cup rs.file]   \* std::fs::copy is Ok
               \/ rs' = [rs EXCEPT !.i = @ + 1]                      \* Err: sleep, go on
          ELSE rs' = [next EXCEPT !.failed_files = @ \cup rs.file,
                                  !.exhausted = @ \cup rs.file]
    /\ UNCHANGED <<bvars, mvars, svars>>

\* lines 591-605: the loop has ended and the BackupInfo is returned (on
\* Windows after hives.restore(), whose result is dropped)
RestoreReturn ==
    /\ rs.pc = "files"
    /\ rs.todo_files = {}
    /\ rs' = [rs EXCEPT !.pc = "done"]
    /\ UNCHANGED <<bvars, mvars, svars>>

\* the steps of a restore_game call
RestoreStep ==
    \/ \E file \in rs.todo_files : RestoreFile(file)
    \/ RestoreCopy
    \/ RestoreReturn

NextRestore ==
    \/ \E name \in RestoreNames : ScanForRestoration(name)
    \/ \E redirects \in RedirectLists(platform) : RestoreStart(redirects)
    \/ \E file \in rs.todo_files : RestoreFile(file)
    \/ RestoreCopy
    \/ RestoreReturn

SpecRestore == InitRestore /\ [][NextRestore]_vars

\* A restore_game call that has started keeps running
SpecRestoreLive == SpecRestore /\ WF_vars(RestoreStep)

-----------------------------------------------------------------------------
(* SpecPath: one StrictPath::interpret call, on a machine where some of the  *)
(* paths exist                                                               *)

\* std::fs::canonicalize(absolutized) on a file system without symbolic
\* links: Ok(the absolute path with the dots resolved) when the path exists
\* (on POSIX every directory on the way has to exist as well), else Err.
\* A set of at most one string.
canonicalize(os, existing, absolutized) ==
    LET walk(full) ==
            LET pieces == NormalPieces(os, full)
                upto(n) == SubSeq(full, 1, PrefixLen(os, full))
                             \o (IF HasRoot(os, full) THEN <<TYPICAL_SEPARATOR(os)>> ELSE << >>)
                             \o JoinWith(ResolveDots(SubSeq(pieces, 1, n), << >>),
                                         TYPICAL_SEPARATOR(os))
            IN  IF /\ upto(Len(pieces)) \in existing
                   /\ os # "windows" =>
                        \A n \in 1..Len(pieces) :
                            pieces[n] \in {<<".">>, <<".", ".">>} \/ upto(n) \in existing
                THEN {(IF os = "windows" THEN UNC_LOCAL_PREFIX ELSE << >>) \o upto(Len(pieces))}
                ELSE {}
    IN  walk(IF is_absolute(os, absolutized) THEN absolutized
             ELSE PathJoin(os, CurrentDir(os), absolutized))

\* interpret(path, basis) with both arms of the match on canonicalize
interpret_on(os, existing, path, basis) ==
    LET base == IF basis = {} THEN CurrentDir(os) ELSE CHOOSE b \in basis : TRUE
        absolutized(normalized) ==
            IF is_absolute(os, normalized) THEN normalized ELSE PathJoin(os, base, normalized)
        arms(canonical) ==
            IF canonical # {} THEN CHOOSE x \in canonical : TRUE
            ELSE interpret(os, path, basis)
    IN  arms(canonicalize(os, existing, absolutized(normalize(os, path))))

\* text with "/" for the separator of the build target
Native(os, text) == Replace(text, <<"/">>, <<TYPICAL_SEPARATOR(os)>>)

\* an absolute directory of the machine
Top(os) == IF os = "windows" THEN <<"C", ":", "/", "tmp">> ELSE <<"/", "tmp">>

\* the raw texts interpret is called with
RawPaths(os) ==
    { <<"~">>,
      <<"~", "/", "~">>,
      <<"~", "\\", "~">>,
      <<"~", "a">>,
      <<"~", "/", "a", "/", ".", ".", "/", "b">>,
      <<"x">>,
      <<".", "/", "x">>,
      <<".", "/", ".", "/", ".", "/", "x">>,
      <<".", ".", "/", "x">>,
      <<"a", "/", ".", "/", "b">>,
      <<"a", "/", ".", ".", "/", "b">>,
      <<".">>,
      Top(os) \o <<"/", "x">>,
      Native(os, Top(os) \o <<"/", "x">>),
      Top(os) \o <<"/", ".", "/", "x">>,
      Top(os) \o <<"/", ".", "/", ".", "/", "x">>,
      Top(os) \o <<"/", "fake", "/", ".", ".", "/", "x">>,
      Native(os, Top(os) \o <<"/", "fake", "/", ".", ".", "/", "x">>),
      Native(os, HomeDir(os) \o <<"/", "b">>) }

\* the bases: None, absolute directories, and a relative one
Bases(os) ==
    { {}, {Native(os, Top(os))}, {Native(os, Top(os) \o <<"/", "fake">>)}, {<<"rel">>} }

\* the paths that exist on the machine: none of those asked for, or these
ExistingSets(os) ==
    { {},
      { Native(os, p) :
          p \in { Top(os), Top(os) \o <<"/", "x">>, Top(os) \o <<"/", "a">>,
                  Top(os) \o <<"/", "b">>,
                  CurrentDir(os), CurrentDir(os) \o <<"/", "x">>,
                  CurrentDir(os) \o <<"/", "rel">>,
                  HomeDir(os), HomeDir(os) \o <<"/", "b">>, HomeDir(os) \o <<"/", "~">> } } }

InitPath ==
    /\ platform \in {"linux", "windows"}
    /\ disk = << >>
    /\ opened = [base |-> StrictPath_new(<< >>), games |-> << >>]
    /\ bk = << >>
    /\ runs = 0
    /\ faults = 0
    /\ MappingUnused
    /\ rs = IdleRestore
    /\ sc = IdleScan
    /\ ip = NoInterpret
    /\ ld = NoLoad

\* StrictPath::relative(raw, basis).interpret() (StrictPath::new(raw) when the
\* basis is None)
InterpretCall(raw, basis, existing) ==
    /\ ip' = [called |-> TRUE, raw |-> raw, basis |-> basis, existing |-> existing,
              result |-> interpret_on(platform, existing, raw, basis)]
    /\ UNCHANGED <<bvars, mvars, rs, sc, ld>>

NextPath ==
    \E raw \in RawPaths(platform), basis \in Bases(platform),
       existing \in ExistingSets(platform) :
          InterpretCall(raw, basis, existing)

SpecPath == InitPath /\ [][NextPath]_vars

-----------------------------------------------------------------------------
(* SpecLoad: one IndividualMapping::load or OverallMapping::load call on a   *)
(* backup root whose folders hold mapping documents of every kind            *)

FolderNames == {<<"a">>, <<"b">>, <<"c">>}

\* what a folder may hold under the name mapping.yaml
MappingKinds == {"absent", "valid", "garbled", "binary", "folder"}

LoadDisks(os) ==
    LET sep == <<TYPICAL_SEPARATOR(os)>>
        mapping_yaml(folder, name, kind) ==
            CASE kind = "valid" ->
                   (folder \o sep \o MAPPING_YAML :>
                      DocEntry([name |-> name, drives |-> (DriveKey(1) :> << >>)]))
              [] kind = "garbled" -> (folder \o sep \o MAPPING_YAML :> FileEntry)
              [] kind = "binary"  -> (folder \o sep \o MAPPING_YAML :> BinaryEntry)
              [] kind = "folder"  -> (folder \o sep \o MAPPING_YAML :> DirEntry)
              [] OTHER -> << >>
        content(root, kinds) ==
            (root :> DirEntry)
            @@ [p \in {root \o sep \o n : n \in FolderNames} |-> DirEntry]
            @@ mapping_yaml(root \o sep \o <<"a">>, <<"a">>, kinds[<<"a">>])
            @@ mapping_yaml(root \o sep \o <<"b">>, <<"b">>, kinds[<<"b">>])
            @@ mapping_yaml(root \o sep \o <<"c">>, <<"c">>, kinds[<<"c">>])
    IN  { content(StrictPath_interpret(os, BackupRoot(os)), kinds) :
            kinds \in [FolderNames -> MappingKinds] }

InitLoad ==
    /\ platform \in {"linux", "windows"}
    /\ disk \in LoadDisks(platform)
    /\ opened = [base |-> BackupRoot(platform), games |-> << >>]
    /\ bk = << >>
    /\ runs = 0
    /\ faults = 0
    /\ MappingUnused
    /\ rs = IdleRestore
    /\ sc = IdleScan
    /\ ip = NoInterpret
    /\ ld = NoLoad

\* IndividualMapping::load(file) on the mapping.yaml of a folder
LoadIndividual(folder) ==
    /\ ld.call = "none"
    /\ \E file \in {game_mapping_file(platform, StrictPath_joined(platform, opened.base, folder))} :
          ld' = [call |-> "individual", file |-> file,
                 result |-> IndividualMapping_load(platform, disk, file)]
    /\ UNCHANGED <<bvars, mvars, rs, sc, ip>>

\* OverallMapping::load(base): it returns the index, unless a load panicked
LoadOverall ==
    /\ ld.call = "none"
    /\ IF OverallMapping_load_panics(platform, disk, opened.base)
       THEN ld' = [call |-> "overall", file |-> opened.base,
                   result |-> [tag |-> "panic", value |-> {}]]
       ELSE \E games \in OverallMapping_load(platform, disk, opened.base) :
               ld' = [call |-> "overall", file |-> opened.base,
                      result |-> [tag |-> "Ok", value |-> {games}]]
    /\ UNCHANGED <<bvars, mvars, rs, sc, ip>>

NextLoad ==
    \/ \E folder \in FolderNames : LoadIndividual(folder)
    \/ LoadOverall

SpecLoad == InitLoad /\ [][NextLoad]_vars

-----------------------------------------------------------------------------
(* prelude.rs: scan_game_for_backup, parse_paths and glob_any.  A manifest   *)
(* placeholder such as <root>, and the skip token, is one atom.              *)

WINDOWS(os) == os = "windows"

MAC(os) == os = "mac"

LINUX(os) == os = "linux"

CASE_INSENSITIVE_OS(os) == WINDOWS(os) \/ MAC(os)

SKIP == "<skip>"

get_os(os) ==
    IF LINUX(os) THEN "Linux"
    ELSE IF WINDOWS(os) THEN "Windows"
    ELSE IF MAC(os) THEN "Mac"
    ELSE "Other"

\* a RootsConfig value; store is "Steam" or "Other"
RootsConfig(path, store) == [path |-> StrictPath_new(path), store |-> store]

\* The directories the dirs crate reports on the modelled machine, each a set
\* of at most one path: empty (None) when the environment does not tell.
dirs_dir(os, env, which) ==
    IF env # "known" THEN {}
    ELSE IF os = "windows"
    THEN CASE which = "data"       -> {HomeDir(os) \o <<"\\", "AppData", "\\", "Roaming">>}
           [] which = "config"     -> {HomeDir(os) \o <<"\\", "AppData", "\\", "Roaming">>}
           [] which = "data_local" -> {HomeDir(os) \o <<"\\", "AppData", "\\", "Local">>}
           [] which = "document"   -> {HomeDir(os) \o <<"\\", "Documents">>}
           [] OTHER                -> {<<"C", ":", "\\", "Users", "\\", "Public">>}
    ELSE CASE which = "data"       -> {HomeDir(os) \o <<"/", ".local", "/", "share">>}
           [] which = "config"     -> {HomeDir(os) \o <<"/", ".config">>}
           [] which = "data_local" -> {HomeDir(os) \o <<"/", ".local", "/", "share">>}
           [] which = "document"   -> {HomeDir(os) \o <<"/", "Documents">>}
           [] OTHER                -> {HomeDir(os) \o <<"/", "Public">>}

\* whoami::username()
username == <<"u">>

check_path(path) == IF path = {} THEN <<SKIP>> ELSE CHOOSE p \in path : TRUE

\* check_windows_path without the test of the build target
check_windows_path_anywhere(os, path) == check_path(path)

check_windows_path(os, path) ==
    IF get_os(os) = "Windows" THEN check_path(path) ELSE <<SKIP>>

check_nonwindows_path(os, path) ==
    IF get_os(os) = "Windows" THEN <<SKIP>> ELSE check_path(path)

\* a chain of str::replace calls, applied left to right
RECURSIVE ReplaceEach(_, _)
ReplaceEach(s, pairs) ==
    IF pairs = << >> THEN s
    ELSE ReplaceEach(Replace(s, <<pairs[1][1]>>, pairs[1][2]), Tail(pairs))

\* format!("{}/steamapps/compatdata/{}/pfx/drive_c", root.path.interpret(), steam_id.unwrap())
compat_prefix(os, root, steam_id) ==
    StrictPath_interpret(os, root.path)
      \o <<"/", "steamapps", "/", "compatdata", "/">> \o steam_id
      \o <<"/", "pfx", "/", "drive_c">>

\* parse_paths, lines 217-255: the template with the substitutions of the
\* build target
native_candidate(os, env, path, root, install_dir) ==
    LET chain(root_path) ==
            ReplaceEach(path,
              << <<"<root>", root_path>>,
                 <<"<game>", install_dir>>,
                 <<"<base>", IF root.store = "Steam"
                             THEN root_path \o <<"/", "steamapps", "/", "common", "/">> \o install_dir
                             ELSE root_path \o <<"/">> \o install_dir>>,
                 <<"<home>", HomeDir(os)>>,
                 <<"<storeUserId>", IF root.store = "Steam" THEN <<"[0-9]", "*">> ELSE <<"*">>>>,
                 <<"<osUserName>", username>>,
                 <<"<winAppData>", check_windows_path(os, dirs_dir(os, env, "data"))>>,
                 <<"<winLocalAppData>", check_windows_path(os, dirs_dir(os, env, "data_local"))>>,
                 <<"<winDocuments>", check_windows_path(os, dirs_dir(os, env, "document"))>>,
                 <<"<winPublic>", check_windows_path(os, dirs_dir(os, env, "public"))>>,
                 <<"<winProgramData>",
                   check_windows_path(os, {<<"C", ":", "/", "Windows", "/", "ProgramData">>})>>,
                 <<"<winDir>", check_windows_path(os, {<<"C", ":", "/", "Windows">>})>>,
                 <<"<xdgData>", check_nonwindows_path(os, dirs_dir(os, env, "data"))>>,
                 <<"<xdgConfig>", check_nonwindows_path(os, dirs_dir(os, env, "config"))>>,
                 <<"<regHkcu>", <<SKIP>>>>,
                 <<"<regHklm>", <<SKIP>>>> >>)
    IN  chain(StrictPath_interpret(os, root.path))

\* parse_paths, lines 256-286: the template with the substitutions of the
\* compatibility prefix of a Steam root
prefix_candidate(os, env, path, root, install_dir, steam_id) ==
    LET chain(root_path, prefix) ==
            ReplaceEach(path,
              << <<"<root>", root_path>>,
                 <<"<game>", install_dir>>,
                 <<"<base>", root_path \o <<"/", "steamapps", "/", "common", "/">> \o install_dir>>,
                 <<"<home>", prefix \o <<"/", "users", "/", "steamuser">>>>,
                 <<"<storeUserId>", <<"*">>>>,
                 <<"<osUserName>", <<"steamuser">>>>,
                 <<"<winAppData>", prefix \o <<"/", "users", "/", "steamuser", "/", "Application Data">>>>,
                 <<"<winLocalAppData>",
                   prefix \o <<"/", "users", "/", "steamuser", "/", "Application Data">>>>,
                 <<"<winDocuments>", prefix \o <<"/", "users", "/", "steamuser", "/", "My Documents">>>>,
                 <<"<winPublic>", prefix \o <<"/", "users", "/", "Public">>>>,
                 <<"<winProgramData>", prefix \o <<"/", "ProgramData">>>>,
                 <<"<winDir>", prefix \o <<"/", "windows">>>>,
                 <<"<xdgData>", check_nonwindows_path(os, dirs_dir(os, env, "data"))>>,
                 <<"<xdgConfig>", check_nonwindows_path(os, dirs_dir(os, env, "config"))>>,
                 <<"<regHkcu>", <<SKIP>>>>,
                 <<"<regHklm>", <<SKIP>>>> >>)
    IN  chain(StrictPath_interpret(os, root.path), compat_prefix(os, root, steam_id))

\* parse_paths: the set of candidates of one template for one root
parse_paths(os, env, path, root, install_dirs, steam_id, manifest_dir) ==
    LET paths == UNION { {native_candidate(os, env, path, root, install_dir)}
                           \cup (IF get_os(os) = "Linux" /\ root.store = "Steam" /\ steam_id # {}
                                 THEN {prefix_candidate(os, env, path, root, install_dir,
                                                        CHOOSE id \in steam_id : TRUE)}
                                 ELSE {})
                         : install_dir \in install_dirs }
    IN  {StrictPath_relative(x, {StrictPath_interpret(os, manifest_dir)}) : x \in paths}

\* str::starts_with for a one-atom pattern
starts_with_atom(s, atom) == s # << >> /\ s[1] = atom

\* str::contains for a one-atom pattern
contains(s, atom) == \E i \in 1..Len(s) : s[i] = atom

\* str::trim().is_empty()
trim_is_empty(s) == \A i \in 1..Len(s) : s[i] = " "

\* glob::MatchOptions as glob_any builds them
glob_options(os) ==
    [case_sensitive |-> CASE_INSENSITIVE_OS(os),
     require_literal_separator |-> TRUE,
     require_literal_leading_dot |-> FALSE]

\* the file system of the build target treats names that differ in case as one
case_insensitive_fs(os) == os \in {"windows", "mac"}

\* char::to_ascii_lowercase on the atoms of the modelled names
LowerTable == ("SAV" :> "sav") @@ ("Data" :> "data") @@ ("G" :> "g") @@ ("Save" :> "save")

to_ascii_lowercase(atom) == IF atom \in DOMAIN LowerTable THEN LowerTable[atom] ELSE atom

Lowered(s) == [i \in 1..Len(s) |-> to_ascii_lowercase(s[i])]

Digits == {"1", "7"}

\* the metacharacters of a glob pattern that the templates can hold
GlobMeta == {"*", "[0-9]"}

\* glob::Pattern::matches_with on one path component: "*" matches any run of
\* characters (none of them a separator when require_literal_separator),
\* "[0-9]" one digit, any other character itself (by case when case_sensitive)
RECURSIVE matches_with(_, _, _)
matches_with(pattern, name, options) ==
    IF pattern = << >> THEN name = << >>
    ELSE IF Head(pattern) = "*"
    THEN \E k \in 0..Len(name) :
            /\ \A i \in 1..k : ~(options.require_literal_separator /\ name[i] \in {"/", "\\"})
            /\ matches_with(Tail(pattern), SubSeq(name, k + 1, Len(name)), options)
    ELSE /\ name # << >>
         /\ IF Head(pattern) = "[0-9]" THEN Head(name) \in Digits
            ELSE IF options.case_sensitive THEN Head(pattern) = Head(name)
            ELSE to_ascii_lowercase(Head(pattern)) = to_ascii_lowercase(Head(name))
         /\ matches_with(Tail(pattern), Tail(name), options)

\* glob::glob_with over the files of the machine.  The pattern is taken one
\* path component at a time: a component without metacharacters is looked up
\* in the file system as it is spelled, any other is matched against the names
\* in the directory.  A pattern that ends in a separator matches directories
\* only.  The result is the set of regular files that are a matched entry or
\* lie below one (the walk of lines 397-414), spelled as the walk yields them.
glob_with(os, files, pattern, options) ==
    LET has_meta(p) == \E i \in 1..Len(p) : p[i] \in GlobMeta
        component(p, f) ==
            IF has_meta(p) THEN matches_with(p, f, options)
            ELSE p = f \/ (case_insensitive_fs(os) /\ Lowered(p) = Lowered(f))
        matched(pcs, fcs, dir_only) ==
            /\ Len(pcs) <= Len(fcs)
            /\ dir_only => Len(pcs) < Len(fcs)
            /\ \A i \in 1..Len(pcs) : component(pcs[i], fcs[i])
        yielded(pcs, fcs) ==
            JoinWith([i \in 1..Len(fcs) |->
                        IF i <= Len(pcs) /\ ~has_meta(pcs[i]) THEN pcs[i] ELSE fcs[i]], "/")
        found(pcs, dir_only) ==
            { yielded(pcs, SplitOn(f, "/")) :
                f \in {g \in files : matched(pcs, SplitOn(g, "/"), dir_only)} }
        split(all) ==
            IF Len(all) > 1 /\ all[Len(all)] = << >>
            THEN found(SubSeq(all, 1, Len(all) - 1), TRUE)
            ELSE found(all, FALSE)
    IN  split(SplitOn(pattern, "/"))

\* glob_any(path) followed by the loop over its entries (lines 380-417): the
\* regular files found for one path to check, with reslashed separators
glob_any(os, files, path) ==
    glob_with(os, files, StrictPath_render(os, path), glob_options(os))

-----------------------------------------------------------------------------
(* SpecScan: one scan_game_for_backup call *)

\* the directory of the manifest (StrictPath::relative's basis in parse_paths)
ManifestDir(os) ==
    StrictPath_new(HomeDir(os) \o <<TYPICAL_SEPARATOR(os), ".config",
                                      TYPICAL_SEPARATOR(os), "ludusavi">>)

\* the root of the store on the modelled machine
StoreRoot(os) == IF os = "windows" THEN <<"C", ":", "\\", "games">> ELSE <<"/", "games">>

\* the lists of configured roots a scan is called with
RootLists(os) ==
    { << >>,
      <<RootsConfig(StoreRoot(os), "Other")>>,
      <<RootsConfig(StoreRoot(os), "Steam")>>,
      <<RootsConfig(<<" ">>, "Steam"), RootsConfig(StoreRoot(os), "Steam")>> }

WINDOWS_ONLY == {"<winAppData>", "<winLocalAppData>", "<winDocuments>", "<winPublic>",
                 "<winProgramData>", "<winDir>"}

\* the keys of Game.files the manifest may hold
Templates ==
    { <<"<base>", "/", "*", ".", "sav">>,
      <<"<root>", "/", "<game>", "/", "Data">>,
      <<"<winAppData>", "/", "<game>", "/", "*", ".", "sav">>,
      <<"<winDir>", "/", "<game>", ".", "ini">>,
      <<"<winPublic>", "/", "<regHklm>">>,
      <<"<regHkcu>", "/", "x">>,
      <<"<xdgConfig>", "/", "<game>", "/", "cfg">>,
      <<"<home>", "/", "<storeUserId>", "/", "<osUserName>", ".", "sav">>,
      <<"<home>", "/", "save", ".", "sav">>,
      <<" ">> }

GameFiles ==
    { {t} : t \in Templates }
      \cup { {}, {<<"<base>", "/", "*", ".", "sav">>, <<"<winDir>", "/", "<game>", ".", "ini">>} }

\* the regular files of the machine the scan runs on, separators as "/"
ScanFiles(os) ==
    LET drive == IF os = "windows" THEN <<"C", ":">> ELSE << >>
        store == <<drive, <<"games">>>>
        home  == IF os = "windows" THEN <<drive, <<"Users">>, <<"u">>>>
                                   ELSE <<drive, <<"home">>, <<"u">>>>
        pfx   == store \o <<<<"steamapps">>, <<"compatdata">>, <<"7">>, <<"pfx">>>>
        app   == IF os = "windows" THEN home \o <<<<"AppData">>, <<"Roaming">>>>
                                   ELSE pfx \o <<<<"drive_c">>, <<"users">>, <<"steamuser">>,
                                                 <<"Application Data">>>>
        win   == IF os = "windows" THEN <<drive, <<"Windows">>>>
                                   ELSE pfx \o <<<<"drive_c">>, <<"windows">>>>
    IN  { JoinWith(cs, "/") : cs \in
            { store \o <<<<"g">>, <<"save", ".", "SAV">>>>,
              store \o <<<<"g">>, <<"Data">>, <<"x", ".", "sav">>>>,
              store \o <<<<"g">>, <<"Data">>, <<"sub">>, <<"y">>>>,
              store \o <<<<"steamapps">>, <<"common">>, <<"g">>, <<"a", ".", "sav">>>>,
              store \o <<<<"userdata">>, <<"1">>, <<"7">>, <<"remote">>, <<"cloud">>>>,
              store \o <<<<"userdata">>, <<"1">>, <<"760">>, <<"remote">>, <<"7">>,
                         <<"screenshots">>, <<"shot", ".", "png">>>>,
              pfx \o <<<<"user", ".", "reg">>>>,
              app \o <<<<"g">>, <<"b", ".", "SAV">>>>,
              win \o <<<<"g", ".", "ini">>>>,
              home \o <<<<".config">>, <<"g">>, <<"cfg">>>>,
              home \o <<<<"7">>, <<"u", ".", "sav">>>>,
              home \o <<<<"Save", ".", "sav">>>> } }

InitScan ==
    /\ platform \in {"linux", "windows", "mac"}
    /\ disk = << >>
    /\ opened = [base |-> StrictPath_new(<< >>), games |-> << >>]
    /\ bk = << >>
    /\ runs = 0
    /\ faults = 0
    /\ MappingUnused
    /\ rs = IdleRestore
    /\ sc = IdleScan
    /\ ip = NoInterpret
    /\ ld = NoLoad

\* scan_game_for_backup is called: the dummy root goes first (lines 316-321)
ScanStart(files, install_dir, registry, roots, steam_id, env) ==
    /\ sc.pc = "idle"
    /\ sc' = [IdleScan EXCEPT
                !.pc = "roots",
                !.game = [files |-> files, install_dir |-> install_dir, registry |-> registry],
                !.name = <<"g">>,
                !.roots_to_check = <<RootsConfig(<<SKIP>>, "Other")>> \o roots,
                !.steam_id = steam_id,
                !.dirs = env,
                !.i = 1]
    /\ UNCHANGED <<bvars, mvars, rs, ip, ld>>

\* lines 348-377: the paths a Steam root adds when a Steam id is known
steam_paths(os, root, steam_id, registry, manifest_dir) ==
    LET under(root_path, id, basis) ==
            { StrictPath_relative(root_path \o <<"/", "userdata", "/", "*", "/">> \o id
                                    \o <<"/", "remote", "/">>, basis),
              StrictPath_relative(root_path \o <<"/", "userdata", "/", "*", "/", "760", "/",
                                                 "remote", "/">> \o id
                                    \o <<"/", "screenshots", "/", "*", ".", "*">>, basis) }
              \cup (IF registry # {}
                    THEN {StrictPath_relative(root_path \o <<"/", "steamapps", "/", "compatdata", "/">>
                                                \o id \o <<"/", "pfx", "/", "*", ".", "reg">>, basis)}
                    ELSE {})
    IN  IF root.store = "Steam" /\ steam_id # {}
        THEN under(StrictPath_interpret(os, root.path), CHOOSE id \in steam_id : TRUE,
                   {StrictPath_interpret(os, manifest_dir)})
        ELSE {}

\* the candidates of one root (lines 329-347), each with the template and the
\* root it was derived from
root_candidates(os, frame, root) ==
    LET install_dirs == IF frame.game.install_dir = {} THEN {frame.name}
                        ELSE frame.game.install_dir
    IN  UNION { { [template |-> raw_path, root |-> root, path |-> candidate] :
                    candidate \in parse_paths(os, frame.dirs, raw_path, root, install_dirs,
                                              frame.steam_id, ManifestDir(os)) } :
                raw_path \in {t \in frame.game.files : ~trim_is_empty(t)} }

\* one round of the loop over roots_to_check (lines 325-378)
ScanRoot ==
    /\ sc.pc = "roots"
    /\ LET round(root, candidates) ==
            IF trim_is_empty(root.path.raw)
            THEN sc' = [sc EXCEPT !.i = @ + 1,
                                  !.pc = IF sc.i = Len(sc.roots_to_check) THEN "glob" ELSE "roots"]
            ELSE sc' = [sc EXCEPT
                          !.i = @ + 1,
                          !.pc = IF sc.i = Len(sc.roots_to_check) THEN "glob" ELSE "roots",
                          !.candidates = @ \cup candidates,
                          !.kept = @ \cup {c \in candidates : ~contains(c.path.raw, SKIP)},
                          !.paths_to_check =
                              @ \cup {c.path : c \in {d \in candidates : ~contains(d.path.raw, SKIP)}}
                                \cup steam_paths(platform, root, sc.steam_id, sc.game.registry,
                                                 ManifestDir(platform))]
       IN  round(sc.roots_to_check[sc.i],
                 root_candidates(platform, sc, sc.roots_to_check[sc.i]))
    /\ UNCHANGED <<bvars, mvars, rs, ip, ld>>

\* the loop over paths_to_check (lines 380-417)
ScanGlob ==
    /\ sc.pc = "glob"
    /\ sc' = [sc EXCEPT
                !.pc = "registry",
                !.globbed = {StrictPath_render(platform, path) : path \in sc.paths_to_check},
                !.found_files =
                    { ScannedFile(plain) :
                        plain \in UNION { glob_any(platform, ScanFiles(platform), path) :
                                            path \in sc.paths_to_check } }]
    /\ UNCHANGED <<bvars, mvars, rs, ip, ld>>

\* lines 419-441: on a Windows build the registry tells which of the game's
\* keys exist; then the ScanInfo is returned
ScanReturn ==
    /\ sc.pc = "registry"
    /\ \E keys \in SUBSET sc.game.registry :
          /\ ~WINDOWS(platform) => keys = {}
          /\ sc' = [sc EXCEPT !.pc = "done", !.found_registry_keys = keys]
    /\ UNCHANGED <<bvars, mvars, rs, ip, ld>>

NextScan ==
    \/ \E files \in GameFiles, install_dir \in {{}, {<<"g">>, <<"alt">>}},
         registry \in {{}, {<<"HKEY_CURRENT_USER", "/", "g">>}},
         roots \in RootLists(platform), steam_id \in {{}, {<<"7">>}},
         env \in {"known", "unknown"} :
            ScanStart(files, install_dir, registry, roots, steam_id, env)
    \/ ScanRoot
    \/ ScanGlob
    \/ ScanReturn

SpecScan == InitScan /\ [][NextScan]_vars

-----------------------------------------------------------------------------
(* Properties of back_up_game and the layout, checked under Spec *)

\* the immediate sub-directories of the backup root whose mapping document
\* names the game
HoldersOf(name) ==
    {StrictPath_interpret(platform, g.base) :
        g \in {h \in LoadedGames(platform, disk, opened.base) : h.name = name}}

\* the layouts BackupLayout::new can produce on the present disk
Reopened == BackupLayout_new(platform, disk, opened.base)

Folders(layout, name) ==
    {StrictPath_interpret(platform, f) : f \in game_folder(platform, disk, layout, name)}

\* C1 (round trip): once a backup has returned, every file it copied is
\* listed by restorable_files of the reopened layout, with the archived copy
\* as path and an original_path that renders as the path it was copied from.
C1_RoundTrip ==
    (bk.pc = "done" /\ bk.saved) =>
        \A reopened \in Reopened :
        \A target_game \in game_folder(platform, disk, reopened, bk.name) :
        \A c \in bk.copied :
        \E r \in restorable_files(platform, disk, reopened, bk.name, target_game) :
            /\ StrictPath_interpret(platform, r.path) = c[2]
            /\ r.original_path # {}
            /\ \A o \in r.original_path :
                  StrictPath_render(platform, o) = StrictPath_render(platform, c[1].path)

\* C2 (a backup supersedes the prior one): from the moment the folder is
\* prepared, everything below it was created by this call, and the saved
\* mapping document holds the drives of this call's files only.
C2_Supersedes ==
    bk.prepared =>
        /\ \A folder \in {StrictPath_interpret(platform, bk.target_game)} :
           \A p \in DOMAIN disk : Below(platform, folder, p) => p \in bk.created
        /\ bk.saved =>
              \A file \in {StrictPath_interpret(platform, game_mapping_file(platform, bk.target_game))} :
                  /\ is_file(disk, file)
                  /\ disk[file].doc = {bk.mapping}
                  /\ Values(bk.mapping.drives) \subseteq
                        {split_drive(platform, f.path)[1] : f \in bk.info.found_files}

\* C2 witness: a backup into the folder of an earlier backup has returned, it
\* copied a file, and a file of the earlier backup is gone.
C2_Witness ==
    /\ bk.pc = "done" /\ bk.prepared /\ bk.saved /\ bk.copied # {}
    /\ \E before \in InitialDisks(platform) : \E p \in DOMAIN before :
          /\ Below(platform, StrictPath_interpret(platform, bk.target_game), p)
          /\ is_file(before, p)
          /\ p \notin DOMAIN disk

\* C3 (a game's folder is exclusive to it): no step of a backup of one game
\* removes or changes an entry in or below a folder whose mapping document
\* names another game.
C3_OtherFoldersUntouched ==
    [][\A g \in LoadedGames(platform, disk, opened.base) :
       \A d \in {StrictPath_interpret(platform, g.base)} : \A p \in DOMAIN disk :
          g.name # bk'.name =>
          ((p = d \/ Below(platform, d, p)) => (p \in DOMAIN disk' /\ disk'[p] = disk[p]))]_vars

\* C4 (collision-free folder names): two distinct game names that are not in
\* the loaded mapping never get the same folder from game_folder.
C4_DistinctFolders ==
    \A n1 \in GameNames : \A n2 \in GameNames \ {n1} :
        (n1 \notin DOMAIN opened.games /\ n2 \notin DOMAIN opened.games)
            => Folders(opened, n1) \cap Folders(opened, n2) = {}

\* C5 (one folder per game): between backups that all succeeded, at most one
\* folder under the root holds a mapping document naming a game, and
\* game_folder of the reopened layout returns that folder.
C5_OneFolderPerGame ==
    (bk.pc \in {"idle", "done"} /\ bk.all_ok) =>
        \A n \in GameNames : \A holders \in {HoldersOf(n)} :
            /\ Cardinality(holders) <= 1
            /\ holders # {} =>
                  \A reopened \in Reopened : Folders(reopened, n) = holders

\* C6 (sticky folder identity): for a game named by the mapping document of
\* an immediate sub-folder when the layout is opened, game_folder returns
\* such a sub-folder (the only one, when there is one), not a computed name.
C6_StickyFolder ==
    bk.pc \in {"idle", "done"} =>
        \A reopened \in Reopened : \A n \in GameNames : \A holders \in {HoldersOf(n)} :
            holders # {} =>
                \E d \in holders :
                    game_folder(platform, disk, reopened, n) = {StrictPath_new(d)}

\* C6 witness: the layout in use is the one just opened, the folder of game
\* "g" is not the escaped name, and a backup of "g" went into that folder.
C6_Witness ==
    /\ opened \in Reopened
    /\ bk.pc = "done" /\ bk.saved /\ bk.name = <<"g">>
    /\ \E holders \in {HoldersOf(<<"g">>)} :
          /\ holders = {StrictPath_interpret(platform, bk.target_game)}
          /\ Folders(opened, <<"g">>) = holders
          /\ StrictPath_interpret(platform,
                StrictPath_joined(platform, opened.base, escape_folder_name(<<"g">>)))
                  \notin holders

\* C10 (failure is per file): after a prepared backup has returned, a found
\* file is in failed_files exactly when creating its parent directory or
\* copying it failed, and every other found file is on disk at its game_file
\* path.
C10_PerFileFailure ==
    (bk.pc = "done" /\ bk.prepared) =>
        \A file \in bk.info.found_files :
            /\ file \in bk.failed_files <=> file \in bk.io_failed
            /\ file \notin bk.failed_files =>
                  \A gf \in game_file(platform, bk.target_game, file.path, bk.mapping.drives) :
                      is_file(disk, StrictPath_interpret(platform, gf.file))

\* C10 witness: of two found files one failed and the other is on disk.
C10_Witness ==
    /\ bk.pc = "done" /\ bk.prepared
    /\ Cardinality(bk.info.found_files) = 2
    /\ Cardinality(bk.failed_files) = 1
    /\ \E c \in bk.copied : c[1] \notin bk.failed_files /\ is_file(disk, c[2])

\* C11 (a failed preparation fails every file): once the preparation of a call
\* has failed, no copy is attempted and no mapping document is written, and
\* every found file the loop has passed is in failed_files; when the call has
\* returned failed_files equals found_files.
C11_PreparationFailure ==
    bk.unable_to_prepare =>
        /\ bk.copied = {} /\ bk.io_failed = {} /\ bk.created = {}
        /\ ~bk.saved
        /\ bk.failed_files = bk.info.found_files \ bk.todo_files
        /\ bk.pc = "done" => bk.failed_files = bk.info.found_files

\* C11 witness: a call with two found files has returned after a failed
\* preparation.
C11_Witness ==
    /\ bk.pc = "done" /\ bk.unable_to_prepare
    /\ Cardinality(bk.info.found_files) = 2
    /\ bk.failed_files = bk.info.found_files

\* C12 (when and what the mapping document is): a call that has returned has
\* saved its mapping document exactly when something was found and the
\* preparation succeeded; the saved document is the mapping of this call, whose
\* keys are the tokens allocated during the call; and within a call the
\* mapping file is written by one step only, the last one, after the loop over
\* the found files has ended.
C12_MappingSaved ==
    /\ [](bk.pc = "done" => (bk.saved <=> (found_anything(bk.info) /\ ~bk.unable_to_prepare)))
    /\ [](bk.saved =>
            \A file \in {StrictPath_interpret(platform, game_mapping_file(platform, bk.target_game))} :
                /\ is_file(disk, file)
                /\ disk[file] = DocEntry(bk.mapping)
                /\ bk.mapping.name = bk.name
                /\ DOMAIN bk.mapping.drives = bk.allocated)
    /\ [][\A file \in {StrictPath_interpret(platform, game_mapping_file(platform, bk'.target_game))} :
            (/\ bk.pc \notin {"idle", "done"}
             /\ is_file(disk', file)
             /\ ~is_file(disk, file) \/ disk'[file] # disk[file])
            => /\ bk.todo_files = {}
               /\ ~bk.saved /\ bk'.saved
               /\ bk'.pc = "done"]_vars

\* C12 witness: a call on Windows has returned after copying files of two
\* drives into a folder that held the backup of one drive, and has saved its
\* mapping document.
C12_Witness ==
    /\ bk.pc = "done" /\ bk.saved
    /\ Cardinality(bk.copied) = 2
    /\ Cardinality(bk.allocated) = 2
    /\ \E before \in InitialDisks(platform) :
       \E file \in {StrictPath_interpret(platform, game_mapping_file(platform, bk.target_game))} :
          /\ is_file(before, file)
          /\ before[file] # disk[file]

\* C13 (an all-failed run leaves no mapping): when a call has returned with
\* every found file in failed_files, and at least one file was found, the game
\* folder holds no mapping document written by that call.
C13_NoMappingWhenAllFailed ==
    (bk.pc = "done" /\ bk.info.found_files # {} /\ bk.failed_files = bk.info.found_files) =>
        \A file \in {StrictPath_interpret(platform, game_mapping_file(platform, bk.target_game))} :
            ~(bk.saved /\ is_file(disk, file) /\ disk[file] = DocEntry(bk.mapping))

-----------------------------------------------------------------------------
(* Properties of restore_game and of the layout that is restored from,
   checked under SpecRestore *)

\* C14 (retries are bounded and per file): a file is never copied after 99
\* failed attempts; a file is in failed_files exactly when its parent
\* directory could not be created or 99 attempts have failed, and is given up
\* only then; a file whose copy succeeded is not taken up again and is not in
\* failed_files; when the call returns every found file was either restored
\* or reported; and every call that has started returns.
C14_BoundedRetries ==
    /\ [](rs.i <= 99)
    /\ [](/\ rs.failed_files = rs.no_parent \cup rs.exhausted
          /\ rs.restored \cap rs.failed_files = {}
          /\ rs.restored \cap (rs.todo_files \cup rs.file) = {}
          /\ rs.pc = "done" =>
                \A file \in rs.info.found_files :
                    file.original_path # {} => file \in rs.restored \cup rs.failed_files)
    /\ [][rs.pc = "copy" =>
            \/ /\ rs.i < 99                      \* an attempt succeeds
               /\ rs'.pc = "files"
               /\ rs'.restored = rs.restored \cup rs.file
               /\ rs'.failed_files = rs.failed_files
            \/ /\ rs.i < 99                      \* an attempt fails
               /\ rs'.pc = "copy" /\ rs'.file = rs.file /\ rs'.i = rs.i + 1
               /\ rs'.restored = rs.restored
               /\ rs'.failed_files = rs.failed_files
            \/ /\ rs.i = 99                      \* 99 attempts have failed
               /\ rs'.pc = "files"
               /\ rs'.restored = rs.restored
               /\ rs'.failed_files = rs.failed_files \cup rs.file]_vars
    /\ (rs.pc \in {"files", "copy"}) ~> (rs.pc = "done")

\* C14 witness: a call over three files has returned; the parent directory of
\* one could not be created, the 99 attempts to copy another all failed, and
\* the third was restored.
C14_Witness ==
    /\ rs.pc = "done"
    /\ Cardinality(rs.info.found_files) = 3
    /\ Cardinality(rs.no_parent) = 1
    /\ Cardinality(rs.exhausted) = 1
    /\ Cardinality(rs.restored) = 1

\* the original target of a restorable file
OriginalOf(file) == CHOOSE original_path \in file.original_path : TRUE

\* C15 (the effective target of a restoration): for every file restore_game
\* has taken up: with a single redirect whose source renders as a prefix of
\* the original target's rendering, the effective target renders as the
\* original with that prefix replaced by the redirect's target; when no
\* redirect's source is such a prefix, the original is returned with None;
\* and the second element is Some (the original) exactly when the effective
\* target renders differently from the original.  (rs.results changes only in
\* steps that leave the retry counter at 0.)
C15_EffectiveTarget ==
    rs.i = 0 =>
    \A r \in rs.results :
    \A original \in {OriginalOf(r.file)} :
    \A rendered \in {StrictPath_render(platform, original)} :
    \A sources \in {[k \in DOMAIN rs.redirects |-> StrictPath_render(platform, rs.redirects[k].source)]} :
        /\ (Len(rs.redirects) = 1 /\ StartsWith(rendered, sources[1])) =>
              \A replaced \in {StrictPath_render(platform, rs.redirects[1].target)
                                  \o SubSeq(rendered, Len(sources[1]) + 1, Len(rendered))} :
                  /\ StrictPath_render(platform, r.target)
                        = StrictPath_render(platform, StrictPath_new(replaced))
                  /\ r.original # {} => r.target = StrictPath_new(replaced)
        /\ (\A k \in DOMAIN sources : ~StartsWith(rendered, sources[k])) =>
              (r.target = original /\ r.original = {})
        /\ r.original \subseteq {original}
        /\ r.original # {} <=> StrictPath_render(platform, r.target) # rendered

\* C15 witness: with the single redirect /old -> /new the file backed up from
\* /old/save.dat is restored to /new/save.dat, and the original is returned
\* with it.
C15_Witness ==
    /\ platform = "linux"
    /\ Len(rs.redirects) = 1
    /\ \E r \in rs.results :
          /\ OriginalOf(r.file) = StrictPath_new(<<"/", "old", "/", "save.dat">>)
          /\ r.target = StrictPath_new(<<"/", "new", "/", "save.dat">>)
          /\ r.original = {OriginalOf(r.file)}

\* `current` with its leading `source` replaced by `target`, when it starts
\* with `source`
LeadingReplaced(current, source, target) ==
    IF StartsWith(current, source)
    THEN target \o SubSeq(current, Len(source) + 1, Len(current))
    ELSE current

\* the entries of a redirect list taken one after the other, each tested
\* against what the entries before it have left
RECURSIVE InListOrder(_, _, _)
InListOrder(os, current, redirects) ==
    IF redirects = << >> THEN current
    ELSE InListOrder(os,
                     LeadingReplaced(current,
                                     StrictPath_render(os, Head(redirects).source),
                                     StrictPath_render(os, Head(redirects).target)),
                     Tail(redirects))

\* C16 (redirects apply in list order, once each): for every file restore_game
\* has taken up, the effective target is what is left after the entries of
\* the redirect list have been taken in list order, each one once, each
\* tested against the text the entries before it have left, replacing its
\* source at the head of that text only, and leaving the text as it is when
\* the text does not start with its source.  (rs.results changes only in
\* steps that leave the retry counter at 0.)
C16_ListOrder ==
    rs.i = 0 =>
    \A r \in rs.results :
    \A rendered \in {StrictPath_render(platform, OriginalOf(r.file))} :
    \A expected \in {InListOrder(platform, rendered, rs.redirects)} :
        /\ StrictPath_render(platform, r.target)
              = StrictPath_render(platform, StrictPath_new(expected))
        /\ r.original # {} => r.target = StrictPath_new(expected)
        /\ r.original = {} => StrictPath_render(platform, StrictPath_new(expected)) = rendered

\* C16 witness: with the redirects /old -> /new, /new -> /fin in this order
\* the file backed up from /old/save.dat is restored to /fin/save.dat.
C16_Witness ==
    /\ platform = "linux"
    /\ Len(rs.redirects) = 2
    /\ StrictPath_render(platform, rs.redirects[1].target)
          = StrictPath_render(platform, rs.redirects[2].source)
    /\ \E r \in rs.results :
          /\ OriginalOf(r.file) = StrictPath_new(<<"/", "old", "/", "save.dat">>)
          /\ r.target = StrictPath_new(<<"/", "fin", "/", "save.dat">>)

\* C17 (only files below a drive folder are restorable): every file that
\* restorable_files returned to a scan lies below an immediate sub-directory
\* of the game folder whose name is a drive token of the game in the loaded
\* mapping; nothing is returned for a game that is not in the loaded mapping.
C17_OnlyDriveFolders ==
    rs.pc # "idle" =>
        \A folder \in {StrictPath_interpret(platform, rs.target_game)} :
        \A f \in rs.info.found_files :
            /\ rs.name \in DOMAIN opened.games
            /\ \E token \in DOMAIN opened.games[rs.name].drives :
                  Below(platform, folder \o <<TYPICAL_SEPARATOR(platform), token>>,
                        StrictPath_interpret(platform, f.path))

\* the folder name of the latest scan: what game_folder put after the root
ScannedFolderName ==
    SubSeq(rs.target_game.raw,
           Len(StrictPath_interpret(platform, opened.base)) + 2, Len(rs.target_game.raw))

\* C18 (readable names are escaped character by character): for a scanned
\* name that is not in the loaded mapping and whose escaped form is not made
\* of the replacement character alone, game_folder returned the root joined
\* with the name in which each unsafe character is replaced by "_" and every
\* other character is kept; the folder name holds no unsafe character.
C18_EscapedFolder ==
    (/\ rs.pc # "idle"
     /\ rs.name \notin DOMAIN opened.games
     /\ \E i \in DOMAIN escape_folder_name(rs.name) : escape_folder_name(rs.name)[i] # SAFE) =>
        \A folder \in {ScannedFolderName} :
            /\ rs.target_game
                  = StrictPath_new(StrictPath_interpret(platform, opened.base) \o <<"/">> \o folder)
            /\ Len(folder) = Len(rs.name)
            /\ \A i \in DOMAIN folder :
                  /\ rs.name[i] \in UnsafeAtoms => folder[i] = "_"
                  /\ rs.name[i] \notin UnsafeAtoms => folder[i] = rs.name[i]
                  /\ folder[i] \notin UnsafeAtoms

\* C18 witness: the name "../b*" was scanned and got the folder ".._b_" under
\* the root.
C18_Witness ==
    /\ rs.pc = "scanned"
    /\ rs.name = <<".", ".", "/", "b", "*">>
    /\ ScannedFolderName = <<".", ".", "_", "b", "_">>

\* C19 (unreadable names get a synthetic folder): for a scanned name that is
\* not in the loaded mapping and is empty, ".", ".." or made of unsafe
\* characters only, game_folder returned the root joined with a name that
\* starts with "ludusavi-renamed-", is not empty and is not made of the
\* replacement character alone.
C19_SyntheticFolder ==
    (/\ rs.pc # "idle"
     /\ rs.name \notin DOMAIN opened.games
     /\ \/ rs.name \in {<< >>, <<".">>, <<".", ".">>}
        \/ \A i \in DOMAIN rs.name : rs.name[i] \in UnsafeAtoms) =>
        \A folder \in {ScannedFolderName} :
            /\ rs.target_game
                  = StrictPath_new(StrictPath_interpret(platform, opened.base) \o <<"/">> \o folder)
            /\ StartsWith(folder, <<"ludusavi-renamed-">>)
            /\ Len(folder) > 1
            /\ \E i \in DOMAIN folder : folder[i] # SAFE

\* C19 witness: the name ".." was scanned and got a generated folder name.
C19_Witness ==
    /\ rs.pc = "scanned"
    /\ rs.name = <<".", ".">>
    /\ ScannedFolderName \in generate_total_rename

\* C20 (the folder of an unreadable name is stable): when a name made of
\* unsafe characters only is scanned again, with the same layout instance and
\* an unchanged disk, game_folder returns the folder it returned before.
C20_StableFolder ==
    [][(/\ rs.pc \in {"scanned", "done"} /\ rs'.pc = "scanned"
        /\ rs'.name = rs.name
        /\ rs.name # << >> /\ \A i \in DOMAIN rs.name : rs.name[i] \in UnsafeAtoms
        /\ opened' = opened /\ disk' = disk)
       => rs'.target_game = rs.target_game]_vars

-----------------------------------------------------------------------------
(* Properties of scan_game_for_backup, checked under SpecScan *)

\* the text holds the skip token
HoldsSkip(text) == \E i \in 1..Len(text) : text[i] = "<skip>"

\* the template holds one of the given placeholders
Mentions(template, placeholders) == \E i \in 1..Len(template) : template[i] \in placeholders

\* C21: every candidate derived from a template whose substituted text still
\* contains the skip token is discarded before glob expansion, so no path that
\* contains the skip token is glob-expanded.  That covers the templates with
\* <regHkcu> or <regHklm> on every platform and the templates with <root> or
\* <base> resolved against the dummy root.
C21_SkipDiscarded ==
    /\ \A c \in sc.candidates :
          /\ HoldsSkip(c.path.raw) => (c \notin sc.kept /\ c.path \notin sc.paths_to_check)
          /\ Mentions(c.template, {"<regHkcu>", "<regHklm>"}) => c \notin sc.kept
          /\ (c.root.path.raw = <<SKIP>> /\ Mentions(c.template, {"<root>", "<base>"}))
                => c \notin sc.kept
    /\ \A path \in sc.paths_to_check : ~HoldsSkip(path.raw)
    /\ \A text \in sc.globbed : ~HoldsSkip(text)

\* C21 witness: a scan has globbed the candidate of a configured root after
\* the same template's candidate for the dummy root was discarded
C21_Witness ==
    /\ sc.pc = "done"
    /\ sc.globbed # {}
    /\ \E c \in sc.candidates, k \in sc.kept :
          /\ c.root.path.raw = <<SKIP>>
          /\ Mentions(c.template, {"<base>"})
          /\ HoldsSkip(c.path.raw)
          /\ k.template = c.template
          /\ StrictPath_render(platform, k.path) \in sc.globbed

\* C22 as stated: on a build target other than Windows a template with a
\* Windows-only placeholder contributes no path to the set that is
\* glob-expanded, whatever the root and whether or not a Steam id is known
C22_WindowsOnlyDiscarded ==
    ~WINDOWS(platform) => \A c \in sc.kept : ~Mentions(c.template, WINDOWS_ONLY)

\* C22 as amended: on a build target other than Windows a template with a
\* Windows-only placeholder contributes no path to the set that is
\* glob-expanded, except on Linux for a Steam root when a Steam id is known:
\* there the one path it contributes is the variant resolved inside that
\* root's compatibility prefix
C22_WindowsOnlyDiscardedNatively ==
    ~WINDOWS(platform) =>
        \A c \in sc.kept :
            Mentions(c.template, WINDOWS_ONLY) =>
                /\ LINUX(platform)
                /\ c.root.store = "Steam"
                /\ sc.steam_id # {}
                /\ \A id \in sc.steam_id :
                      \E at \in 1..Len(c.path.raw) :
                          MatchAt(c.path.raw, compat_prefix(platform, c.root, id), at)

\* C22 witness: a finished scan on Linux for a Steam root with a Steam id,
\* where a template with a Windows-only placeholder lost its native candidate
\* and kept the one inside the compatibility prefix
C22_Witness ==
    /\ sc.pc = "done"
    /\ LINUX(platform)
    /\ sc.steam_id # {}
    /\ \E c \in sc.candidates, k \in sc.kept :
          /\ Mentions(c.template, WINDOWS_ONLY)
          /\ c.root.store = "Steam"
          /\ c \notin sc.kept
          /\ k.template = c.template
          /\ k.root = c.root

\* C23: glob expansion ignores case only on the platforms whose native file
\* system does (Windows, macOS) and is case-sensitive on the others (Linux);
\* path separators are always matched literally.  So the files a scan finds
\* are those its paths match under these options.
C23_CaseByPlatform ==
    sc.pc = "done" =>
        sc.found_files =
            { ScannedFile(plain) :
                plain \in UNION { glob_with(platform, ScanFiles(platform),
                                            StrictPath_render(platform, path),
                                            [case_sensitive |-> ~case_insensitive_fs(platform),
                                             require_literal_separator |-> TRUE,
                                             require_literal_leading_dot |-> FALSE]) :
                                    path \in sc.paths_to_check } }

-----------------------------------------------------------------------------
(* Properties of IndividualMapping::load and OverallMapping::load, checked   *)
(* under SpecLoad                                                            *)

\* the folders of the backup root whose mapping.yaml is a valid document
ValidFolders ==
    { n \in FolderNames :
        \E file \in {game_mapping_file(platform, StrictPath_joined(platform, opened.base, n))} :
        \E path \in {StrictPath_interpret(platform, file)} :
            is_file(disk, path) /\ disk[path].doc # {} }

\* C24: loading a mapping document never panics.  IndividualMapping::load
\* returns Err for an absent file and for a file whose content is no valid
\* mapping document, content that cannot be read as text included, and Ok
\* otherwise; OverallMapping::load skips such folders and indexes every folder
\* that holds a valid document.
C24_LoadNeverPanics ==
    /\ ld.call = "individual" =>
          /\ ld.result.tag \in {"Ok", "Err"}
          /\ ld.result.tag = "Ok" <=>
                \E n \in ValidFolders :
                    ld.file = game_mapping_file(platform,
                                                StrictPath_joined(platform, opened.base, n))
    /\ ld.call = "overall" =>
          /\ ld.result.tag = "Ok"
          /\ \A games \in ld.result.value : DOMAIN games = ValidFolders

-----------------------------------------------------------------------------
(* Properties of StrictPath::interpret, checked under SpecPath *)

\* What the resolution is to give, in the rendered form: the home directory
\* for a leading "~" (alone or before a separator), the basis (the working
\* directory when absent) in front of a relative path, every "." segment
\* removed and every ".." removing the segment before it
Resolved(os, raw, basis) ==
    LET sep == <<TYPICAL_SEPARATOR(os)>>
        absolute(text) == IF is_absolute(os, text) THEN text
                          ELSE CurrentDir(os) \o sep \o text
        in_front(base, text) == IF is_absolute(os, text) THEN text
                                ELSE absolute(base) \o sep \o text
        dedotted(pieces) ==
            JoinWith(<<pieces[1]>>
                       \o ResolveDots(SelectSeq(Tail(pieces), LAMBDA piece : piece # << >>), << >>),
                     "/")
    IN  dedotted(SplitOn(Replace(
            in_front(IF basis = {} THEN CurrentDir(os) ELSE CHOOSE b \in basis : TRUE,
                     IF raw = <<"~">> \/ (Len(raw) >= 2 /\ raw[1] = "~" /\ raw[2] \in {"/", "\\"})
                     THEN HomeDir(os) \o Tail(raw) ELSE raw),
            <<"\\">>, <<"/">>), "/"))

-----------------------------------------------------------------------------
(* A property of back_up_game, checked under Spec *)

\* C26: when the scan found nothing (no files and no registry keys),
\* back_up_game changes nothing on disk: the existing backup folder of the
\* game, its archived files and its mapping document stay as they are, no
\* folder is created, and the BackupInfo returned is empty
C26_NothingFoundNothingChanged ==
    [][(bk' # bk /\ bk'.info.found_files = {} /\ bk'.info.found_registry_keys = {})
          => /\ disk' = disk
             /\ bk'.created = {}
             /\ ~bk'.prepared
             /\ ~bk'.saved
             /\ bk'.failed_files = {}
             /\ bk'.failed_registry = {}]_vars

\* C26 witness: a call for a game whose backup is on disk has returned after
\* a scan that found nothing, and the backup is still there
C26_Witness ==
    /\ bk.pc = "done"
    /\ bk.info.found_files = {}
    /\ bk.info.found_registry_keys = {}
    /\ \E folder \in {StrictPath_interpret(platform, bk.target_game)} :
          /\ is_dir(disk, folder)
          /\ is_file(disk, StrictPath_interpret(platform,
                                                game_mapping_file(platform, bk.target_game)))
          /\ \E p \in DOMAIN disk :
                Below(platform, folder \o <<TYPICAL_SEPARATOR(platform)>> \o <<DriveKey(1)>>, p)
                  /\ is_file(disk, p)

=============================================================================
